---------------------------- MODULE Spec2Model ----------------------------
(***************************************************************************)
(* Resume upload and parsing (beyondgamer21/tech-hires2).                  *)
(*                                                                         *)
(* Texts are TLA+ strings; a character is a string of length 1.  The       *)
(* regular expressions of the source are kept as syntax trees and run by   *)
(* a backtracking matcher that lists the ways a pattern can match at a     *)
(* position in the priority order of ECMAScript (greedy before shorter,    *)
(* lazy before longer, alternatives left to right), so that the first      *)
(* entry is the match RegExp.prototype.exec reports.                       *)
(***************************************************************************)
EXTENDS Integers, Sequences, FiniteSets, TLC

VARIABLES
  \* direct calls of parseResumeText
  input,        \* the argument of the latest call
  prevInput,    \* the argument of the call before it
  parsed,       \* what the latest call returned or threw
  calls,        \* the number of calls so far
  firstText,    \* the argument of the first call
  firstParsed,  \* what the first call returned or threw
  skillsLeft,   \* the `skills` array as the latest call left it
  degreesLeft,  \* the `degrees` array as the latest call left it
  assigned,     \* the properties of resumeData the latest call assigned
  \* a direct call of extractTextFromFile
  exBuffer,     \* the buffer argument
  exType,       \* the contentType argument
  exDecoder,    \* what the format decoder does with the buffer
  exResult,     \* what the returned promise settled to
  \* POST /api/resume/upload
  pc,           \* where the request is: idle, multer, callback, done
  request,      \* the request received
  multerErr,    \* the err argument of the multer callback
  reqFile,      \* req.file
  extracted,    \* what extractTextFromFile settled to inside processResume
  resumeData,   \* what processResume returned
  response,     \* the response sent
  answers,      \* every response the handler sent for the request, in order
  \* the page in the browser
  resume,       \* the resume object the page holds, if any
  created,      \* that object as the upload handler created it
  shown,        \* what the latest operation on the resume gave
  \* /api/jobs/search and the two fetchWithRetry helpers
  SERPAPI_KEY,    \* the key of the job-search provider in the server's environment
  caller,         \* who runs fetchWithRetry: none, server (searchJobs), client (JobSearch)
  sPc,            \* where the search is: idle, fetching, done
  search,         \* the search request received by the route or posted by the page
  attempt,        \* the loop counter of fetchWithRetry (attempt, retries)
  sent,           \* the outcomes of the requests fetchWithRetry issued, in order
  waits,          \* the time waited after each failed request, in ms
  lastError,      \* lastError of fetchWithRetry
  fetched,        \* what the call of fetchWithRetry came to
  searchResponse, \* the response of the route
  \* the ResumeUpload component
  fileShown,      \* `file` of the component: the file it shows, if any
  isProcessing,   \* isProcessingResume of the page
  uploads,        \* the calls of handleFileUpload that got to fetch, in order
  toast,          \* the title of the latest toast
  \* the JobSearch component
  isSubmitted,    \* form.formState.isSubmitted
  currentPage,    \* the page of results asked for
  totalResults,   \* the total the latest answer reported
  jobsShown,      \* `jobs`: the number of jobs in the data of the query, if any
  queries         \* the runs of queryFn that wait for their answer

parserVars == << input, prevInput, parsed, calls, firstText, firstParsed, skillsLeft,
                degreesLeft, assigned >>
extractVars == << exBuffer, exType, exDecoder, exResult >>
uploadVars == << pc, request, multerErr, reqFile, extracted, resumeData, response, answers >>

clientVars == << resume, created, shown >>

searchVars == << SERPAPI_KEY, caller, sPc, search, attempt, sent, waits, lastError, fetched,
                searchResponse >>

pageVars == << fileShown, isProcessing, uploads, toast, isSubmitted, currentPage, totalResults,
              jobsShown, queries >>

vars == << parserVars, extractVars, uploadVars, clientVars, searchVars, pageVars >>

-----------------------------------------------------------------------------
(* Characters *)

UpperChars == "ABCDEFGHIJKLMNOPQRSTUVWXYZ"
LowerChars == "abcdefghijklmnopqrstuvwxyz"
DigitChars == "0123456789"

Ch(s, i) == SubSeq(s, i, i)

CharsOf(s) == { Ch(s, i) : i \in 1..Len(s) }

Upper == CharsOf(UpperChars)
Lower == CharsOf(LowerChars)
Digit == CharsOf(DigitChars)
Letter == Upper \cup Lower
\* \w
Word == Letter \cup Digit \cup {"_"}
\* \s, as far as it occurs in the texts of the model
Space == {" ", "\n"}

\* Canonicalize of the /i flag, on ASCII: letters compare by their lower case
LowerOf == [ c \in Upper |-> Ch(LowerChars, CHOOSE i \in 1..26 : Ch(UpperChars, i) = c) ]

ToLowerChar(c) == IF c \in Upper THEN LowerOf[c] ELSE c

RECURSIVE ToLower(_)
ToLower(s) == IF s = "" THEN "" ELSE ToLowerChar(Ch(s, 1)) \o ToLower(Tail(s))

-----------------------------------------------------------------------------
(* Regular expression syntax trees *)

\* The characters a match can begin with, lower-cased, where the pattern tells
\* (known); the search for a match skips the positions that cannot begin one.
\* Every node carries it, computed when the pattern is built.
NoFirst == [known |-> FALSE, set |-> {}]

RECURSIVE FirstOfAll(_)
FirstOfAll(rs) ==
  IF rs = <<>> THEN [known |-> TRUE, set |-> {}]
  ELSE LET h == Head(rs).first
           t == FirstOfAll(Tail(rs))
       IN  [known |-> h.known /\ t.known, set |-> h.set \cup t.set]

LowerSet(set) == { ToLowerChar(x) : x \in set }

Lit(str)        == [t |-> "lit", s |-> str, lower |-> ToLower(str),
                    first |-> IF str = "" THEN NoFirst
                              ELSE [known |-> TRUE, set |-> {ToLowerChar(Ch(str, 1))}]]
Cls(set)        == [t |-> "cls", set |-> set, lower |-> LowerSet(set),
                    first |-> [known |-> TRUE, set |-> LowerSet(set)]]
NCls(set)       == [t |-> "ncls", set |-> set, lower |-> LowerSet(set), first |-> NoFirst]
AnyChar         == [t |-> "any", first |-> NoFirst]
Cat(rs)         == [t |-> "cat", rs |-> rs,
                    first |-> IF rs = <<>> THEN NoFirst ELSE Head(rs).first]
Alt(rs)         == [t |-> "alt", rs |-> rs, first |-> FirstOfAll(rs)]
Rep(a, lo, hi)  == [t |-> "rep", a |-> a, lo |-> lo, hi |-> hi,
                    first |-> IF lo >= 1 THEN a.first ELSE NoFirst]
LazyStar(a)     == [t |-> "lazystar", a |-> a, first |-> NoFirst]
Grp(a)          == [t |-> "grp", a |-> a, first |-> a.first]
Bol             == [t |-> "bol", first |-> NoFirst]
WordB           == [t |-> "wordb", first |-> NoFirst]

\* With({ e : x \in {v} }) is e with x standing for the value v, which is
\* computed once
With(S) == CHOOSE v \in S : TRUE

\* whether position i of s can begin a match of a pattern that begins with `first`
StartOk(first, s, i) ==
  first.known => (i <= Len(s) /\ ToLowerChar(Ch(s, i)) \in first.set)

\* a quantifier without an upper limit; no text of the model is that long
Unbounded == 1000
Opt(a)  == Rep(a, 0, 1)
Plus(a) == Rep(a, 1, Unbounded)

\* capture group 1 not set (undefined in the match array)
NoCap == <<0, 0>>

Here(i, cap) == << [e |-> i, c |-> cap] >>

Max(a, b) == IF a > b THEN a ELSE b

\* a pattern of one character: a class, a negated class or [\s\S]
IsCharClass(re) == re.t \in {"cls", "ncls", "any"}

\* whether the one-character pattern `re` accepts character c
CharOk(re, ci, c) ==
  CASE re.t = "cls" -> IF ci THEN ToLowerChar(c) \in re.lower ELSE c \in re.set
    [] re.t = "ncls" -> IF ci THEN ToLowerChar(c) \notin re.lower ELSE c \notin re.set
    [] re.t = "any" -> TRUE

\* the first position from i on that `re` does not accept (Len(s) + 1 if none)
RunEnd(re, ci, s, i) ==
  CHOOSE p \in i..(Len(s) + 1) :
    /\ p = Len(s) + 1 \/ ~CharOk(re, ci, Ch(s, p))
    /\ \A q \in i..(p - 1) : CharOk(re, ci, Ch(s, q))

Min(a, b) == IF a < b THEN a ELSE b

LitAt(re, ci, s, i) ==
  /\ i + Len(re.s) - 1 <= Len(s)
  /\ IF ci
     THEN /\ StartOk(re.first, s, i)
          /\ ToLower(SubSeq(s, i, i + Len(re.s) - 1)) = re.lower
     ELSE SubSeq(s, i, i + Len(re.s) - 1) = re.s

RECURSIVE M(_, _, _, _, _), MThen(_, _, _, _, _, _), MRepThen(_, _, _, _, _, _), MLazyThen(_, _, _, _, _), MAlt(_, _, _, _, _)

\* The ways `re` matches `s` from position i (1-based), in backtracking
\* order: each is the position after the match and capture group 1.
M(re, ci, s, i, cap) ==
  CASE re.t = "lit" -> IF LitAt(re, ci, s, i) THEN Here(i + Len(re.s), cap) ELSE <<>>
    [] IsCharClass(re) ->
         IF i <= Len(s) /\ CharOk(re, ci, Ch(s, i)) THEN Here(i + 1, cap) ELSE <<>>
    [] re.t = "bol" -> IF i = 1 \/ Ch(s, i - 1) = "\n" THEN Here(i, cap) ELSE <<>>
    [] re.t = "wordb" ->
         LET before == i > 1 /\ Ch(s, i - 1) \in Word
             after  == i <= Len(s) /\ Ch(s, i) \in Word
         IN  IF before # after THEN Here(i, cap) ELSE <<>>
    [] re.t = "cat" ->
         IF re.rs = <<>> THEN Here(i, cap)
         ELSE LET heads == M(Head(re.rs), ci, s, i, cap)
              IN  MThen(Tail(re.rs), ci, s, heads, 1, Len(heads))
    [] re.t = "alt" -> IF StartOk(re.first, s, i) THEN MAlt(re.rs, ci, s, i, cap) ELSE <<>>
    [] re.t = "rep" ->
         IF re.hi = 0 THEN Here(i, cap)
         ELSE IF IsCharClass(re.a)
              \* a run of single characters: the longest first
              THEN LET last == Min(RunEnd(re.a, ci, s, i), i + re.hi)
                       n    == last - (i + re.lo) + 1
                   IN  IF n <= 0 THEN <<>>
                       ELSE [ k \in 1..n |-> [e |-> last - k + 1, c |-> cap] ]
              ELSE MRepThen(re, ci, s, i, M(re.a, ci, s, i, cap), cap)
    [] re.t = "lazystar" ->
         IF IsCharClass(re.a)
         \* a run of single characters: the shortest first
         THEN [ k \in 1..(RunEnd(re.a, ci, s, i) - i + 1) |-> [e |-> i + k - 1, c |-> cap] ]
         ELSE Here(i, cap) \o MLazyThen(re, ci, s, i, M(re.a, ci, s, i, cap))
    [] re.t = "grp" ->
         LET rs == M(re.a, ci, s, i, cap)
         IN  [ k \in 1..Len(rs) |-> [e |-> rs[k].e, c |-> <<i, rs[k].e>>] ]

\* the rest of a concatenation after each of heads[lo..hi], the ways its head
\* matched, in their order
MThen(rest, ci, s, heads, lo, hi) ==
  IF lo > hi THEN <<>>
  ELSE IF lo = hi THEN M(Cat(rest), ci, s, heads[lo].e, heads[lo].c)
  ELSE LET mid == (lo + hi) \div 2
       IN  MThen(rest, ci, s, heads, lo, mid) \o MThen(rest, ci, s, heads, mid + 1, hi)

MAlt(rs, ci, s, i, cap) ==
  IF rs = <<>> THEN <<>>
  ELSE M(Head(rs), ci, s, i, cap) \o MAlt(Tail(rs), ci, s, i, cap)

\* greedy a{lo,hi}: one more repetition first, stopping here last
MRepThen(re, ci, s, i, results, cap) ==
  IF results = <<>> THEN (IF re.lo = 0 THEN Here(i, cap) ELSE <<>>)
  ELSE (IF Head(results).e > i
        THEN M(Rep(re.a, Max(re.lo - 1, 0), re.hi - 1), ci, s,
               Head(results).e, Head(results).c)
        ELSE <<>>)
       \o MRepThen(re, ci, s, i, Tail(results), cap)

\* lazy a*?: stopping here first (given by M), then one more repetition
MLazyThen(re, ci, s, i, results) ==
  IF results = <<>> THEN <<>>
  ELSE (IF Head(results).e > i
        THEN M(re, ci, s, Head(results).e, Head(results).c)
        ELSE <<>>)
       \o MLazyThen(re, ci, s, i, Tail(results))

\* the result of a failed exec / match
NoMatch == [index |-> 0, e |-> 0, c |-> NoCap]

\* RegExp.prototype.exec from lastIndex `from`: the leftmost match
ExecFrom(re, ci, s, from) ==
  LET hits == { i \in from..(Len(s) + 1) :
                  StartOk(re.first, s, i) /\ M(re, ci, s, i, NoCap) # <<>> }
  IN  IF hits = {} THEN NoMatch
      ELSE LET index == CHOOSE i \in hits : \A j \in hits : i <= j
               found == M(re, ci, s, index, NoCap)[1]
           IN  [index |-> index, e |-> found.e, c |-> found.c]

\* String.prototype.match with a regex without the g flag
Match(re, ci, s) == ExecFrom(re, ci, s, 1)

Matched(m) == m.index # 0
\* match[0]
Whole(s, m) == SubSeq(s, m.index, m.e - 1)
\* match[1] is defined
HasGroup(m) == m.c # NoCap
\* match[1]
Group(s, m) == SubSeq(s, m.c[1], m.c[2] - 1)

RECURSIVE ExecAll(_, _, _, _)
\* while ((match = pattern.exec(text)) !== null): every match of a /g
\* pattern, each search starting at the lastIndex the previous one left
\* (no pattern of the source matches the empty string, so lastIndex grows)
ExecAll(re, ci, s, lastIndex) ==
  With({ IF ~Matched(m) THEN <<>> ELSE <<m>> \o ExecAll(re, ci, s, m.e) :
         m \in { ExecFrom(re, ci, s, lastIndex) } })


-----------------------------------------------------------------------------
(* String helpers of the JavaScript runtime *)

RECURSIVE TrimStart(_), TrimEnd(_)
TrimStart(s) == IF s # "" /\ Ch(s, 1) \in Space THEN TrimStart(Tail(s)) ELSE s
TrimEnd(s) ==
  IF s # "" /\ Ch(s, Len(s)) \in Space THEN TrimEnd(SubSeq(s, 1, Len(s) - 1)) ELSE s

\* String.prototype.trim
Trim(s) == TrimEnd(TrimStart(s))

RECURSIVE SplitFrom(_, _, _, _)
\* String.prototype.split(regex): the pieces between the matches of `sep`
SplitFrom(sep, ci, s, p) ==
  With({ IF ~Matched(m) \/ m.index > Len(s) THEN << SubSeq(s, p, Len(s)) >>
         ELSE << SubSeq(s, p, m.index - 1) >> \o SplitFrom(sep, ci, s, m.e) :
         m \in { ExecFrom(sep, ci, s, p) } })

Split(sep, ci, s) == SplitFrom(sep, ci, s, 1)

Contains(seq, x) == \E k \in 1..Len(seq) : seq[k] = x

RECURSIVE DedupInto(_, _)
DedupInto(acc, seq) ==
  IF seq = <<>> THEN acc
  ELSE DedupInto(IF Contains(acc, Head(seq)) THEN acc ELSE Append(acc, Head(seq)),
                 Tail(seq))

RECURSIVE Flatten(_)
Flatten(seqs) == IF seqs = <<>> THEN <<>> ELSE Head(seqs) \o Flatten(Tail(seqs))

NoDuplicates(seq) == \A j, k \in 1..Len(seq) : j # k => seq[j] # seq[k]

\* an optional value: <<>> is undefined, <<v>> is v
None == <<>>
Some(v) == <<v>>

\* the outcome of a computation: a value, or an exception thrown
Ok(v) == [threw |-> FALSE, v |-> v]
Throw == [threw |-> TRUE, v |-> <<>>]

\* match[1] as an optional value
GroupOpt(s, m) == IF HasGroup(m) THEN Some(Group(s, m)) ELSE None

\* x.trim() where x may be undefined: reading a property of undefined throws
TrimOpt(x) == IF x = None THEN Throw ELSE Ok(Trim(x[1]))

-----------------------------------------------------------------------------
(* parseResumeText: the patterns *)

\* /^([A-Z][a-z]+(?:\s+[A-Z][a-z]+){1,2})/m
namePattern ==
  Cat(<< Bol,
         Grp(Cat(<< Cls(Upper), Plus(Cls(Lower)),
                    Rep(Cat(<< Plus(Cls(Space)), Cls(Upper), Plus(Cls(Lower)) >>), 1, 2) >>)) >>)

\* the email pattern with a local part of word characters only
emailPatternPlainLocal ==
  Cat(<< Plus(Cls(Word)), Lit("@"),
         Plus(Cls(Word \cup {".", "-"})), Lit("."), Rep(Cls(Letter), 2, Unbounded) >>)

\* /[\w._%+-]+@[\w.-]+\.[a-zA-Z]{2,}/
emailPattern ==
  Cat(<< Plus(Cls(Word \cup {".", "_", "%", "+", "-"})), Lit("@"),
         Plus(Cls(Word \cup {".", "-"})), Lit("."), Rep(Cls(Letter), 2, Unbounded) >>)

\* [-.\s]?
PhoneSep == Opt(Cls({"-", "."} \cup Space))

\* /(\+\d{1,2}\s?)?(\(\d{3}\)|\d{3})[-.\s]?\d{3}[-.\s]?\d{4}/
phonePattern ==
  Cat(<< Opt(Cat(<< Lit("+"), Rep(Cls(Digit), 1, 2), Opt(Cls(Space)) >>)),
         Alt(<< Cat(<< Lit("("), Rep(Cls(Digit), 3, 3), Lit(")") >>),
                Rep(Cls(Digit), 3, 3) >>),
         PhoneSep, Rep(Cls(Digit), 3, 3), PhoneSep, Rep(Cls(Digit), 4, 4) >>)

\* (?:\sin\s|\s-\s)
FieldSeparator ==
  Alt(<< Cat(<< Cls(Space), Lit("in"), Cls(Space) >>),
         Cat(<< Cls(Space), Lit("-"), Cls(Space) >>) >>)

\* (?:\sin\s|\s-\s)?([^,\n.]+)
FieldSuffix == << Opt(FieldSeparator), Grp(Plus(NCls({",", "\n", "."}))) >>

\* X\.?Y\.?
Abbrev2(x, y) == Cat(<< Lit(x), Opt(Lit(".")), Lit(y), Opt(Lit(".")) >>)

\* Bachelor'?s Degree, Master'?s Degree
PossessiveDegree(w) == Cat(<< Lit(w), Opt(Lit("'")), Lit("s Degree") >>)

\* the seven patterns in the order of the source, each with the flags gi
degreePatterns ==
  << Cat(<< Alt(<< Abbrev2("B", "S"), Lit("Bachelor of Science"),
                   PossessiveDegree("Bachelor") >>) >> \o FieldSuffix),
     Cat(<< Alt(<< Abbrev2("B", "A"), Lit("Bachelor of Arts"),
                   PossessiveDegree("Bachelor") >>) >> \o FieldSuffix),
     Cat(<< Alt(<< Abbrev2("M", "S"), Lit("Master of Science"),
                   PossessiveDegree("Master") >>) >> \o FieldSuffix),
     Alt(<< Cat(<< Lit("M"), Opt(Lit(".")), Lit("B"), Opt(Lit(".")), Lit("A"),
                   Opt(Lit(".")) >>),
            Lit("Master of Business Administration") >>),
     Cat(<< Alt(<< Cat(<< Lit("Ph"), Opt(Lit(".")), Lit("D"), Opt(Lit(".")) >>),
                   Lit("Doctor of Philosophy") >>) >> \o FieldSuffix),
     Alt(<< Abbrev2("M", "D"), Lit("Doctor of Medicine") >>),
     Alt(<< Abbrev2("J", "D"), Lit("Juris Doctor") >>) >>

RECURSIVE Lits(_)
\* an alternation of literal strings
Lits(strs) == IF strs = <<>> THEN <<>> ELSE << Lit(Head(strs)) >> \o Lits(Tail(strs))

\* Vue\.?js, Node\.?js
DotJs(w) == Cat(<< Lit(w), Opt(Lit(".")), Lit("js") >>)

\* the seven patterns in the order of the source, each with the flags gi
skillPatterns ==
  << Alt(Lits(<< "JavaScript", "TypeScript", "Python", "Java", "C++", "C#", "Ruby",
                 "PHP", "Swift", "Kotlin", "Go", "Rust", "SQL", "HTML", "CSS" >>)),
     Alt(Lits(<< "React", "Angular" >>) \o << DotJs("Vue"), DotJs("Node") >>
         \o Lits(<< "Express", "Django", "Flask", "Spring", "Laravel", "Ruby on Rails",
                    "TensorFlow", "PyTorch", "Pandas", "NumPy" >>)),
     Alt(Lits(<< "MongoDB", "MySQL", "PostgreSQL", "Oracle", "SQL Server", "Redis",
                 "Cassandra", "DynamoDB" >>)),
     Alt(Lits(<< "AWS", "Amazon Web Services", "Azure", "Google Cloud", "GCP", "Heroku",
                 "Firebase" >>)),
     Alt(Lits(<< "Docker", "Kubernetes", "Jenkins", "CI/CD", "Git", "GitHub", "GitLab",
                 "Terraform" >>)),
     Alt(Lits(<< "Photoshop", "Illustrator", "Figma", "Sketch", "UI/UX", "Adobe XD" >>)),
     Alt(Lits(<< "Leadership", "Communication", "Teamwork" >>)
         \o << Cat(<< Lit("Problem"), Cls(Space \cup {"-"}), Lit("Solving") >>) >>
         \o Lits(<< "Critical Thinking", "Project Management", "Agile", "Scrum" >>)) >>

\* <keyword>(?:[\s\n]*:[\s\n]*|[\s\n]+)([\s\S]*?)(?:\n\n|\n[A-Z]), flag i
SectionPattern(keyword) ==
  Cat(<< Lit(keyword),
         Alt(<< Cat(<< Rep(Cls(Space), 0, Unbounded), Lit(":"),
                       Rep(Cls(Space), 0, Unbounded) >>),
                Plus(Cls(Space)) >>),
         Grp(LazyStar(AnyChar)),
         Alt(<< Lit("\n\n"), Cat(<< Lit("\n"), Cls(Upper) >>) >>) >>)

\* /[,<bullet bytes>\n]+/: commas and line breaks, as far as the texts of the
\* model go (the three other characters of the class are not ASCII)
skillSeparator == Plus(Cls({",", "\n"}))

\* the experience pattern with the "+" inside its capture group
experiencePatternWithPlus ==
  Cat(<< Grp(Cat(<< Plus(Cls(Digit)), Opt(Lit("+")) >>)), Plus(Cls(Space)), Lit("year"),
         Opt(Lit("s")), Opt(Cat(<< Plus(Cls(Space)), Lit("of") >>)), Plus(Cls(Space)),
         Lit("experience") >>)

\* /(\d+)(?:\+)?\s+years?(?:\s+of)?\s+experience/i
experiencePattern ==
  Cat(<< Grp(Plus(Cls(Digit))), Opt(Lit("+")), Plus(Cls(Space)), Lit("year"),
         Opt(Lit("s")), Opt(Cat(<< Plus(Cls(Space)), Lit("of") >>)), Plus(Cls(Space)),
         Lit("experience") >>)

\* the list of job titles with the data titles first
positionsDataFirst ==
  << "Data Scientist", "Data Engineer", "Software Engineer", "Software Developer",
     "Front-end Developer", "Back-end Developer", "Full-stack Developer",
     "Machine Learning Engineer", "DevOps Engineer", "Product Manager",
     "Project Manager", "UX Designer", "UI Designer" >>

\* the fixed list of job titles, in the order of the source
positions ==
  << "Software Engineer", "Software Developer", "Front-end Developer",
     "Back-end Developer", "Full-stack Developer", "Data Scientist", "Data Engineer",
     "Machine Learning Engineer", "DevOps Engineer", "Product Manager",
     "Project Manager", "UX Designer", "UI Designer" >>

\* (?:at|@|\|)
AtSeparator == Alt(Lits(<< "at", "@", "|" >>))

\* /^([\w\s]+)(?:\s+(?:at|@|\|)\s+([\w\s&]+))?/m
jobPattern ==
  Cat(<< Bol, Plus(Cls(Word \cup Space)),
         Opt(Cat(<< Plus(Cls(Space)), AtSeparator, Plus(Cls(Space)),
                    Plus(Cls(Word \cup Space \cup {"&"})) >>)) >>)

\* new RegExp(`${position}[\\s\n]+(?:at|@|\\|)\\s+([\\w\\s&]+)`, 'i')
CompanyPattern(position) ==
  Cat(<< Lit(position), Plus(Cls(Space)), AtSeparator, Plus(Cls(Space)),
         Grp(Plus(Cls(Word \cup Space \cup {"&"}))) >>)

-----------------------------------------------------------------------------
(* parseResumeText: the fields *)

\* if (nameMatch) resumeData.name = nameMatch[1].trim()
NameField(text) ==
  With({ IF Matched(nameMatch)
         THEN LET t == TrimOpt(GroupOpt(text, nameMatch))
              IN  IF t.threw THEN Throw ELSE Ok(Some(t.v))
         ELSE Ok(None) :
         nameMatch \in { Match(namePattern, FALSE, text) } })

\* if (emailMatch) resumeData.email = emailMatch[0].trim()
EmailField(text) ==
  With({ IF Matched(emailMatch) THEN Ok(Some(Trim(Whole(text, emailMatch)))) ELSE Ok(None) :
         emailMatch \in { Match(emailPattern, FALSE, text) } })

\* if (phoneMatch) resumeData.phone = phoneMatch[0].trim()
PhoneField(text) ==
  With({ IF Matched(phoneMatch) THEN Ok(Some(Trim(Whole(text, phoneMatch)))) ELSE Ok(None) :
         phoneMatch \in { Match(phonePattern, FALSE, text) } })

\* match[0].split(/\sin\s|\s-\s/)[0]
DegreeName(whole) == Split(FieldSeparator, FALSE, whole)[1]

\* DegreeEntry without its test of match[1]
DegreeEntryUnguarded(text, match) ==
  LET t == TrimOpt(GroupOpt(text, match))
  IN  IF t.threw THEN Throw
      ELSE Ok(DegreeName(Whole(text, match)) \o " in " \o t.v)

\* if (match[1]) `${degree} in ${match[1].trim()}` else match[0].trim()
DegreeEntry(text, match) ==
  IF HasGroup(match) /\ Group(text, match) # ""
  THEN LET t == TrimOpt(GroupOpt(text, match))
       IN  IF t.threw THEN Throw
           ELSE Ok(DegreeName(Whole(text, match)) \o " in " \o t.v)
  ELSE Ok(Trim(Whole(text, match)))

RECURSIVE Collect(_, _, _)
\* the outcomes of Entry on every match, in order: the list of the values, or
\* the exception of the first one that throws
Collect(Entry(_, _), text, matches) ==
  IF matches = <<>> THEN Ok(<<>>)
  ELSE With({ IF first.threw \/ rest.threw THEN Throw ELSE Ok(<< first.v >> \o rest.v) :
              first \in { Entry(text, Head(matches)) },
              rest \in { Collect(Entry, text, Tail(matches)) } })

RECURSIVE ForEachPattern(_, _, _, _)
\* for (const pattern of patterns) { while (exec) push(Entry) }, appended to
\* `pushed`; every pattern is a fresh RegExp object, so lastIndex starts at 0
ForEachPattern(Entry(_, _), patterns, text, pushed) ==
  IF patterns = <<>> \/ pushed.threw THEN pushed
  ELSE With({ IF more.threw THEN Throw
              ELSE ForEachPattern(Entry, Tail(patterns), text, Ok(pushed.v \o more.v)) :
              more \in { Collect(Entry, text, ExecAll(Head(patterns), TRUE, text, 1)) } })

\* const degrees = []
NewDegrees == <<>>

\* the degrees array before [...new Set(degrees)]
Degrees(text) == ForEachPattern(DegreeEntry, degreePatterns, text, Ok(NewDegrees))

\* Dedup left out
DedupSkipped(array) == array

\* [...new Set(array)]: the first occurrence of each value, in order
Dedup(array) == DedupInto(<<>>, array)

\* resumeData.qualifications = [...new Set(degrees)]
QualificationsOf(degrees) == IF degrees.threw THEN Throw ELSE Ok(Dedup(degrees.v))

QualificationsField(text) == QualificationsOf(Degrees(text))

\* skills.push(match[0].trim())
SkillEntry(text, match) == Ok(Trim(Whole(text, match)))

RECURSIVE Filter(_, _)
Filter(Keep(_), seq) ==
  IF seq = <<>> THEN <<>>
  ELSE (IF Keep(Head(seq)) THEN << Head(seq) >> ELSE <<>>) \o Filter(Keep, Tail(seq))

\* skill.length > 2 && skill.length < 30
SkillLengthOk(skill) == Len(skill) > 2 /\ Len(skill) < 30

\* skillsSection[1].split(...).map(trim).filter(...)
AdditionalSkills(body) ==
  With({ Filter(SkillLengthOk, [ k \in 1..Len(pieces) |-> Trim(pieces[k]) ]) :
         pieces \in { Split(skillSeparator, FALSE, body) } })

\* the array of the previous invocation, as if `skills` were allocated once
\* for the module
SharedSkills == skillsLeft

\* const skills = []
NewSkills == <<>>

\* the skills array before [...new Set(skills)]
Skills(text) ==
  With({ IF fromTable.threw THEN Throw
         ELSE IF Matched(skillsSection) /\ HasGroup(skillsSection)
                 /\ Group(text, skillsSection) # ""
              THEN Ok(fromTable.v \o AdditionalSkills(Group(text, skillsSection)))
              ELSE fromTable :
         fromTable \in { ForEachPattern(SkillEntry, skillPatterns, text, Ok(NewSkills)) },
         skillsSection \in { Match(SectionPattern("skills"), TRUE, text) } })

\* resumeData.skills = [...new Set(skills)]
SkillsOf(skills) == IF skills.threw THEN Throw ELSE Ok(Dedup(skills.v))

SkillsField(text) == SkillsOf(Skills(text))

\* if (experienceMatch) resumeData.totalYears = `${experienceMatch[1]} years`
TotalYearsField(text) ==
  With({ IF Matched(experienceMatch)
         THEN Ok(Some(Group(text, experienceMatch) \o " years"))
         ELSE Ok(None) :
         experienceMatch \in { Match(experiencePattern, TRUE, text) } })

\* String.prototype.includes
Includes(s, sub) ==
  \E i \in 1..(Len(s) - Len(sub) + 1) : SubSeq(s, i, i + Len(sub) - 1) = sub

\* the first title of `positions` the section includes, with " at <company>"
\* when the title is followed by a separator and a company
RECURSIVE PositionFallback(_, _)
PositionFallback(section, k) ==
  IF k > Len(positions) THEN None
  ELSE IF Includes(section, positions[k])
       THEN With({ IF Matched(companyMatch) /\ HasGroup(companyMatch)
                      /\ Group(section, companyMatch) # ""
                   THEN Some(positions[k] \o " at " \o Trim(Group(section, companyMatch)))
                   ELSE Some(positions[k]) :
                   companyMatch \in { Match(CompanyPattern(positions[k]), TRUE, section) } })
       ELSE PositionFallback(section, k + 1)

\* the first line pattern on the section, then the fixed titles
PositionIn(section) ==
  With({ IF Matched(jobMatch) THEN Ok(Some(Trim(Whole(section, jobMatch))))
         ELSE Ok(PositionFallback(section, 1)) :
         jobMatch \in { Match(jobPattern, FALSE, section) } })

\* the Experience section and the position found in it
LastPositionField(text) ==
  With({ IF Matched(experienceSection) /\ HasGroup(experienceSection)
            /\ Group(text, experienceSection) # ""
         THEN PositionIn(Group(text, experienceSection))
         ELSE Ok(None) :
         experienceSection \in { Match(SectionPattern("experience"), TRUE, text) } })

\* what a call leaves behind in an array it allocated
LeftBy(array) == IF array.threw THEN <<>> ELSE array.v

\* a list property that is assigned only when the array holds an entry
AssignedListWhenFound(key, array) == IF array.threw \/ array.v = <<>> THEN {} ELSE {key}

\* resumeData.qualifications = [...], resumeData.skills = [...]: assigned on
\* every path, whatever the array holds
AssignedList(key, array) == IF array.threw THEN {} ELSE {key}

\* if (match) resumeData.<key> = ...: assigned only under the test
AssignedOptional(key, field) == IF field.threw \/ field.v = None THEN {} ELSE {key}

\* One invocation: const resumeData = {}; ...; return resumeData.  `outcome`
\* is the record returned (or the exception); degrees and skills are the two
\* local arrays as the invocation leaves them.
Invocation(text) ==
  With({ [ outcome |->
             IF \/ name.threw \/ email.threw \/ phone.threw \/ degrees.threw
                \/ skills.threw \/ totalYears.threw \/ lastPosition.threw
             THEN Throw
             ELSE Ok([ name |-> name.v, email |-> email.v, phone |-> phone.v,
                       qualifications |-> QualificationsOf(degrees).v,
                       skills |-> SkillsOf(skills).v,
                       totalYears |-> totalYears.v, lastPosition |-> lastPosition.v ]),
           degrees |-> LeftBy(degrees),
           skills |-> LeftBy(skills),
           assigned |->
             AssignedOptional("name", name) \cup AssignedOptional("email", email)
             \cup AssignedOptional("phone", phone)
             \cup AssignedList("qualifications", degrees)
             \cup AssignedList("skills", skills)
             \cup AssignedOptional("totalYears", totalYears)
             \cup AssignedOptional("lastPosition", lastPosition) ] :
         name \in { NameField(text) },
         email \in { EmailField(text) },
         phone \in { PhoneField(text) },
         degrees \in { Degrees(text) },
         skills \in { Skills(text) },
         totalYears \in { TotalYearsField(text) },
         lastPosition \in { LastPositionField(text) } })

parseResumeText(text) == Invocation(text).outcome

-----------------------------------------------------------------------------
(* Buffers and UTF-8.  A buffer is a sequence of bytes; the text a decoder   *)
(* makes of it is a sequence of code points.                                 *)

\* U+FFFD, which the decoder puts in the place of an ill-formed sequence
Replacement == 65533

IsContinuation(byte) == byte \in 128..191

\* the number of continuation bytes the lead byte asks for (0: ASCII, -1: a
\* byte that begins no sequence)
Need(lead) ==
  CASE lead \in 0..127 -> 0
    [] lead \in 194..223 -> 1
    [] lead \in 224..239 -> 2
    [] lead \in 240..244 -> 3
    [] OTHER -> -1

\* the range of the second byte after this lead (no overlong forms, no
\* surrogates, nothing above U+10FFFF)
SecondLow(lead) == IF lead = 224 THEN 160 ELSE IF lead = 240 THEN 144 ELSE 128
SecondHigh(lead) == IF lead = 237 THEN 159 ELSE IF lead = 244 THEN 143 ELSE 191

\* whether the byte at p + k continues the sequence that begins at p
ContinuesAt(bytes, p, k) ==
  /\ p + k <= Len(bytes)
  /\ IF k = 1 THEN bytes[p + 1] \in SecondLow(bytes[p])..SecondHigh(bytes[p])
              ELSE IsContinuation(bytes[p + k])

\* the unit that begins at p: its code point and the bytes it takes
UnitAt(bytes, p) ==
  LET lead == bytes[p]
      need == Need(lead)
      \* the continuation bytes that follow, up to the first that does not fit
      got == IF need <= 0 THEN 0
             ELSE CHOOSE k \in 0..need :
                    /\ \A j \in 1..k : ContinuesAt(bytes, p, j)
                    /\ k = need \/ ~ContinuesAt(bytes, p, k + 1)
      payload(k) == bytes[p + k] % 64
  IN  IF need = 0 THEN [cp |-> lead, len |-> 1]
      ELSE IF need = -1 \/ got < need THEN [cp |-> Replacement, len |-> 1 + got]
      ELSE [cp |-> CASE need = 1 -> (lead % 32) * 64 + payload(1)
                     [] need = 2 -> ((lead % 16) * 64 + payload(1)) * 64 + payload(2)
                     [] need = 3 -> (((lead % 8) * 64 + payload(1)) * 64 + payload(2)) * 64
                                    + payload(3),
            len |-> need + 1]

\* whether the byte at p lies inside the sequence of a lead byte before it
Covered(bytes, p) ==
  \E k \in 1..3 :
    /\ p - k >= 1
    /\ Need(bytes[p - k]) >= k
    /\ \A j \in 1..k : ContinuesAt(bytes, p - k, j)

\* A unit begins at every byte that no unit before it has taken: the decoder
\* goes on at the first byte a unit did not take, and a unit takes
\* continuation bytes only.
IsStart(bytes, p) == ~IsContinuation(bytes[p]) \/ ~Covered(bytes, p)

RECURSIVE DecodeRange(_, _, _)
\* the code points of the units that begin at the positions lo..hi
DecodeRange(bytes, lo, hi) ==
  IF lo > hi THEN <<>>
  ELSE IF lo = hi
       THEN (IF IsStart(bytes, lo) THEN << UnitAt(bytes, lo).cp >> ELSE <<>>)
       ELSE LET mid == (lo + hi) \div 2
            IN  DecodeRange(bytes, lo, mid) \o DecodeRange(bytes, mid + 1, hi)

\* A decoder that drops a leading U+FEFF, as TextDecoder does
Utf8DecodeSkippingBOM(bytes) ==
  LET cps == DecodeRange(bytes, 1, Len(bytes))
  IN  IF cps # <<>> /\ cps[1] = 65279 THEN Tail(cps) ELSE cps

\* buffer.toString('utf-8'): never throws; ill-formed bytes become U+FFFD
Utf8Decode(bytes) == DecodeRange(bytes, 1, Len(bytes))

\* the UTF-8 form of one code point
EncodeOne(cp) ==
  IF cp < 128 THEN << cp >>
  ELSE IF cp < 2048 THEN << 192 + (cp \div 64), 128 + (cp % 64) >>
  ELSE IF cp < 65536
       THEN << 224 + (cp \div 4096), 128 + ((cp \div 64) % 64), 128 + (cp % 64) >>
       ELSE << 240 + (cp \div 262144), 128 + ((cp \div 4096) % 64),
               128 + ((cp \div 64) % 64), 128 + (cp % 64) >>

RECURSIVE EncodeRange(_, _, _)
EncodeRange(cps, lo, hi) ==
  IF lo > hi THEN <<>>
  ELSE IF lo = hi THEN EncodeOne(cps[lo])
       ELSE LET mid == (lo + hi) \div 2
            IN  EncodeRange(cps, lo, mid) \o EncodeRange(cps, mid + 1, hi)

\* the UTF-8 form of a sequence of code points
Utf8Encode(cps) == EncodeRange(cps, 1, Len(cps))

\* a Unicode scalar value: a code point that is no surrogate
IsScalar(cp) == cp \in 0..55295 \/ cp \in 57344..1114111

RECURSIVE WellFormedFrom(_, _)
\* The well-formed UTF-8 byte sequences (Unicode, table 3-7)
WellFormedFrom(bytes, p) ==
  LET n == Len(bytes) - p + 1
      b(k) == bytes[p + k]
      tail(k) == b(k) \in 128..191
  IN  \/ n = 0
      \/ n >= 1 /\ b(0) \in 0..127 /\ WellFormedFrom(bytes, p + 1)
      \/ n >= 2 /\ b(0) \in 194..223 /\ tail(1) /\ WellFormedFrom(bytes, p + 2)
      \/ /\ n >= 3
         /\ \/ b(0) = 224 /\ b(1) \in 160..191
            \/ b(0) \in (225..236) \cup {238, 239} /\ tail(1)
            \/ b(0) = 237 /\ b(1) \in 128..159
         /\ tail(2)
         /\ WellFormedFrom(bytes, p + 3)
      \/ /\ n >= 4
         /\ \/ b(0) = 240 /\ b(1) \in 144..191
            \/ b(0) \in 241..243 /\ tail(1)
            \/ b(0) = 244 /\ b(1) \in 128..143
         /\ tail(2) /\ tail(3)
         /\ WellFormedFrom(bytes, p + 4)

WellFormed(bytes) == WellFormedFrom(bytes, 1)

\* the ASCII characters of codes 32 to 95, and of codes 97 to 126
PrintableLow == " !\"#$%&'()*+,-./0123456789:;<=>?@ABCDEFGHIJKLMNOPQRSTUVWXYZ[\\]^_"
PrintableHigh == "abcdefghijklmnopqrstuvwxyz{|}~"

CodeOfChar ==
  [ c \in CharsOf(PrintableLow) \cup CharsOf(PrintableHigh) |->
      IF c \in CharsOf(PrintableLow)
      THEN 31 + CHOOSE i \in 1..Len(PrintableLow) : Ch(PrintableLow, i) = c
      ELSE 96 + CHOOSE i \in 1..Len(PrintableHigh) : Ch(PrintableHigh, i) = c ]

\* the code point of a character of the model's texts
CodeOf(c) == IF c = "\n" THEN 10 ELSE CodeOfChar[c]

\* the character of a code point; the texts of the model are of these
\* characters, and any other code point is shown as "?"
CharOf(cp) ==
  IF cp = 10 THEN "\n"
  ELSE IF cp \in 32..95 THEN Ch(PrintableLow, cp - 31)
  ELSE IF cp \in 97..126 THEN Ch(PrintableHigh, cp - 96)
  ELSE "?"

\* a string as code points
CodesOf(str) == [ i \in 1..Len(str) |-> CodeOf(Ch(str, i)) ]

RECURSIVE StringOfRange(_, _, _)
StringOfRange(cps, lo, hi) ==
  IF lo > hi THEN ""
  ELSE IF lo = hi THEN CharOf(cps[lo])
       ELSE LET mid == (lo + hi) \div 2
            IN  StringOfRange(cps, lo, mid) \o StringOfRange(cps, mid + 1, hi)

\* code points as a string
StringOf(cps) == StringOfRange(cps, 1, Len(cps))

-----------------------------------------------------------------------------
(* fileHandlers: text extraction *)

Pdf == "application/pdf"
Docx == "application/vnd.openxmlformats-officedocument.wordprocessingml.document"
Txt == "text/plain"

\* What the promise of an extraction settles to.  `invoked` lists the format
\* decoders that were called, `absorbed` tells that a decoder threw and the
\* exception was caught.
Resolved(text, invoked, absorbed) ==
  [kind |-> "resolved", text |-> text, message |-> "", invoked |-> invoked,
   absorbed |-> absorbed]
Rejected(message, invoked) ==
  [kind |-> "rejected", text |-> <<>>, message |-> message, invoked |-> invoked,
   absorbed |-> FALSE]

\* What a format decoder does with a buffer: it throws, or it yields a text.
\* pdf-parse and mammoth are libraries outside the repository, so what they
\* make of a buffer is an input of the model.
DecoderThrows == [throws |-> TRUE, text |-> <<>>]
DecoderText(cps) == [throws |-> FALSE, text |-> cps]

\* buffer.toString('utf-8') as a decoder: it has no failing outcome
BufferToString(buffer) == DecoderText(Utf8Decode(buffer))

\* a catch block that returns nothing
NoSentinel == <<>>

PdfSentinel ==
  CodesOf("Error: Could not extract text from this PDF. The file may be corrupted, password-protected, or in an unsupported format.")
DocxSentinel ==
  CodesOf("Error: Could not extract text from this DOCX file. The file may be corrupted or in an unsupported format.")
TxtSentinel ==
  CodesOf("Error: Could not extract text from this TXT file. The file may be corrupted or in an unsupported format.")

\* extractTextFromPDF without its try/catch
extractTextFromPDFUncaught(buffer, decoder) ==
  IF decoder.throws THEN Rejected("pdf-parse failed", << "pdf-parse" >>)
  ELSE Resolved(decoder.text, << "pdf-parse" >>, FALSE)

\* try { return (await pdf(buffer)).text } catch { return sentinel }
extractTextFromPDF(buffer, decoder) ==
  IF decoder.throws THEN Resolved(PdfSentinel, << "pdf-parse" >>, TRUE)
  ELSE Resolved(decoder.text, << "pdf-parse" >>, FALSE)

\* try { return (await mammoth.extractRawText({ buffer })).value } catch { ... }
extractTextFromDOCX(buffer, decoder) ==
  IF decoder.throws THEN Resolved(DocxSentinel, << "mammoth" >>, TRUE)
  ELSE Resolved(decoder.text, << "mammoth" >>, FALSE)

\* try { return buffer.toString('utf-8') } catch { ... }
extractTextFromTXT(buffer) ==
  With({ IF decoder.throws THEN Resolved(TxtSentinel, << "toString" >>, TRUE)
         ELSE Resolved(decoder.text, << "toString" >>, FALSE) :
         decoder \in { BufferToString(buffer) } })

\* A switch whose default branch reads the buffer as plain text
extractTextFromFileLenient(buffer, contentType, decoder) ==
  CASE contentType = Pdf -> extractTextFromPDF(buffer, decoder)
    [] contentType = Docx -> extractTextFromDOCX(buffer, decoder)
    [] OTHER -> extractTextFromTXT(buffer)

\* switch (contentType) { ...; default: throw new Error(...) }
extractTextFromFile(buffer, contentType, decoder) ==
  CASE contentType = Pdf -> extractTextFromPDF(buffer, decoder)
    [] contentType = Docx -> extractTextFromDOCX(buffer, decoder)
    [] contentType = Txt -> extractTextFromTXT(buffer)
    [] OTHER -> Rejected("Unsupported file type: " \o contentType, <<>>)

-----------------------------------------------------------------------------
(* The texts of the model *)

\* pieces of resumes; a text is a concatenation of some of them
Fragments ==
  { "Jane Doe\n", "jd@x.io\n", "a..b@x.co ", "555-123-4567 ", "MBA, mba, MBA, ",
    "B.S. in Math, ", "python Git ", "Skills: Python, Excel\n\n",
    "5+ years of experience\n", "Experience:\nData Engineer at Acme\n\n",
    "Error: ", "Skills: Python, Excel, SQL\n", "Skills: Word\nand excel\n\n",
    "B.S. Math, ", "M.S. - Physics\n", "10 years experience ",
    "jane.doe@example.com. " }

\* the largest number of fragments in a text
MaxFrags == 2

RECURSIVE TextsOf(_)
TextsOf(n) == IF n = 0 THEN {""} ELSE { t \o f : t \in TextsOf(n - 1), f \in Fragments }

Texts == UNION { TextsOf(n) : n \in 0..MaxFrags }

\* the texts of the behaviours with several calls
ProbeTexts ==
  { "", "mba ", "python Git MBA, ", "Skills: Python, Excel\n\nmba ",
    "Jane Doe\njd@x.io\n", "B.S. in Math, MBA, python Git " }

-----------------------------------------------------------------------------
(* The resume schema and processResume *)

\* zod's pattern for email addresses, without its two lookaheads:
\* ([A-Z0-9_'+\-\.]*)[A-Z0-9_+-]@([A-Z0-9][A-Z0-9\-]*\.)+[A-Z]{2,}  (flag i)
zodEmailPattern ==
  Cat(<< Rep(Cls(Upper \cup Digit \cup {"_", "'", "+", "-", "."}), 0, Unbounded),
         Cls(Upper \cup Digit \cup {"_", "+", "-"}),
         Lit("@"),
         Plus(Cat(<< Cls(Upper \cup Digit),
                     Rep(Cls(Upper \cup Digit \cup {"-"}), 0, Unbounded),
                     Lit(".") >>)),
         Rep(Cls(Upper), 2, Unbounded) >>)

\* z.string().email(): ^(?!\.)(?!.*\.\.) and then the pattern up to $
IsEmail(str) ==
  /\ str # ""
  /\ Ch(str, 1) # "."
  /\ ~Includes(str, "..")
  /\ LET ways == M(zodEmailPattern, TRUE, str, 1, NoCap)
     IN  \E k \in 1..Len(ways) : ways[k].e = Len(str) + 1

\* resumeSchema.parse(data): a copy of data when every field is of its type,
\* a ZodError otherwise.  Every field processResume sets is a string or an
\* array of strings, so the email is the one field that can fail.
resumeSchemaParse(data) ==
  IF data.email # None /\ ~IsEmail(data.email[1])
  THEN [threw |-> TRUE, v |-> <<>>, message |-> "Invalid email"]
  ELSE [threw |-> FALSE, v |-> data, message |-> ""]

\* the record processResume builds from the file, the text and the fields
ResumeRecord(file, id, rawText, fields) ==
  [ id |-> id, filename |-> file.originalname, contentType |-> file.mimetype,
    rawText |-> rawText,
    name |-> fields.name, email |-> fields.email, phone |-> fields.phone,
    qualifications |-> fields.qualifications, skills |-> fields.skills,
    totalYears |-> fields.totalYears, lastPosition |-> fields.lastPosition ]

\* processResume(file): `extraction` is what extractTextFromFile settled to,
\* id what uuidv4() returned.  It rejects when the extraction or the parser
\* does.
processResume(file, extraction, id) ==
  IF extraction.kind = "rejected"
  THEN [threw |-> TRUE, v |-> <<>>, message |-> extraction.message]
  ELSE With({ IF outcome.threw
              THEN [threw |-> TRUE, v |-> <<>>, message |-> "TypeError"]
              ELSE [threw |-> FALSE, v |-> ResumeRecord(file, id, outcome.text, outcome.v),
                    message |-> ""] :
              outcome \in { With({ [text |-> text] @@ parseResumeText(text) :
                                   text \in { StringOf(extraction.text) } }) } })

-----------------------------------------------------------------------------
(* Direct calls of parseResumeText *)

\* the largest number of calls in a behaviour with several calls
MaxCalls == 3

NotCalled == [threw |-> FALSE, v |-> <<>>]

\* no call of parseResumeText yet
ParserIdle ==
  /\ input = ""
  /\ prevInput = ""
  /\ parsed = NotCalled
  /\ calls = 0
  /\ firstText = ""
  /\ firstParsed = NotCalled
  /\ skillsLeft = <<>>
  /\ degreesLeft = <<>>
  /\ assigned = {}

NotExtracted == [kind |-> "none", text |-> <<>>, message |-> "", invoked |-> <<>>,
                 absorbed |-> FALSE]

\* no call of extractTextFromFile yet
ExtractIdle ==
  /\ exBuffer = <<>>
  /\ exType = ""
  /\ exDecoder = DecoderThrows
  /\ exResult = NotExtracted

NoRequest == [hasFile |-> FALSE, mimetype |-> "", originalname |-> "", size |-> 0,
              head |-> <<>>]
NoFile == [present |-> FALSE, mimetype |-> "", originalname |-> "", size |-> 0,
           buffer |-> <<>>]
NoResponse == [status |-> 0, body |-> <<>>]
NotProcessed == [threw |-> FALSE, v |-> <<>>, message |-> "none"]

\* no upload request yet
UploadIdle ==
  /\ pc = "idle"
  /\ request = NoRequest
  /\ multerErr = None
  /\ reqFile = NoFile
  /\ extracted = NotExtracted
  /\ resumeData = NotProcessed
  /\ response = NoResponse
  /\ answers = <<>>

NoView == [op |-> "none", threw |-> FALSE, value |-> <<>>]

\* the page holds no resume
ClientIdle ==
  /\ resume = None
  /\ created = None
  /\ shown = NoView

NoSearch == [query |-> [jobTitle |-> <<>>, location |-> <<>>],
             body |-> [jobTitle |-> <<>>, location |-> <<>>, page |-> <<>>, limit |-> <<>>]]
NotFetched == [kind |-> "none", response |-> <<>>, error |-> ""]

\* no job search yet
SearchIdle ==
  /\ SERPAPI_KEY = <<>>
  /\ caller = "none"
  /\ sPc = "idle"
  /\ search = NoSearch
  /\ attempt = 0
  /\ sent = <<>>
  /\ waits = <<>>
  /\ lastError = <<>>
  /\ fetched = NotFetched
  /\ searchResponse = NoResponse

\* nothing chosen in ResumeUpload, nothing submitted in JobSearch
PageIdle ==
  /\ fileShown = None
  /\ isProcessing = FALSE
  /\ uploads = <<>>
  /\ toast = ""
  /\ isSubmitted = FALSE
  /\ currentPage = 1
  /\ totalResults = 0
  /\ jobsShown = None
  /\ queries = <<>>

\* parseResumeText(t) is called
Call(t) ==
  \E run \in { Invocation(t) } :
    /\ input' = t
    /\ prevInput' = input
    /\ parsed' = run.outcome
    /\ skillsLeft' = run.skills
    /\ degreesLeft' = run.degrees
    /\ assigned' = run.assigned
    /\ calls' = calls + 1

\* One call on any text of the model
InitParser ==
  /\ input \in Texts
  /\ prevInput = ""
  /\ parsed = NotCalled
  /\ calls = 0
  /\ firstText = input
  /\ firstParsed = NotCalled
  /\ skillsLeft = <<>>
  /\ degreesLeft = <<>>
  /\ assigned = {}
  /\ ExtractIdle
  /\ UploadIdle
  /\ SearchIdle
  /\ PageIdle
  /\ ClientIdle

ParseInput ==
  /\ calls = 0
  /\ Call(input)
  /\ firstParsed' = parsed'
  /\ UNCHANGED << firstText, extractVars, uploadVars, clientVars, searchVars, pageVars >>

NextParser == ParseInput

SpecParser == InitParser /\ [][NextParser]_vars

\* Several calls, one after the other, on the probe texts in any order
InitRepeat ==
  /\ ParserIdle
  /\ ExtractIdle
  /\ UploadIdle
  /\ SearchIdle
  /\ PageIdle
  /\ ClientIdle

FirstCall ==
  /\ calls = 0
  /\ \E t \in ProbeTexts :
       /\ Call(t)
       /\ firstText' = t
       /\ firstParsed' = parsed'
  /\ UNCHANGED << extractVars, uploadVars, clientVars, searchVars, pageVars >>

LaterCall ==
  /\ calls \in 1..(MaxCalls - 1)
  /\ \E t \in ProbeTexts : Call(t)
  /\ UNCHANGED << firstText, firstParsed, extractVars, uploadVars, clientVars, searchVars, pageVars >>

NextRepeat == FirstCall \/ LaterCall

SpecRepeat == InitRepeat /\ [][NextRepeat]_vars

-----------------------------------------------------------------------------
(* Direct calls of extractTextFromFile *)

\* the bytes of the buffers: A, four continuation bytes, and the lead bytes
\* of a two-byte, of three three-byte and of a four-byte sequence
ByteAlphabet == {65, 128, 160, 187, 191, 195, 224, 237, 239, 240}

\* the largest number of bytes in a buffer
MaxBytes == 4

Buffers == UNION { [1..n -> ByteAlphabet] : n \in 0..MaxBytes }

\* buffers of the formats whose decoders are libraries ("%PDF", "PK")
OpaqueBuffers == { << 37, 80, 68, 70 >>, << 80, 75 >> }

\* what a library decoder can make of a buffer
DecoderOutcomes ==
  {DecoderThrows} \cup { DecoderText(CodesOf(t)) : t \in {"", "Jane Doe\n", "Error: "} }

\* content types the switch has no case for
OtherTypes == { "image/png", "application/msword", "text/plain; charset=utf-8", "TEXT/PLAIN", "" }

InitExtract ==
  /\ \/ exType = Txt /\ exBuffer \in Buffers /\ exDecoder = DecoderThrows
     \/ /\ exType \in {Pdf, Docx} \cup OtherTypes
        /\ exBuffer \in OpaqueBuffers
        /\ exDecoder \in DecoderOutcomes
  /\ exResult = NotExtracted
  /\ ParserIdle
  /\ UploadIdle
  /\ SearchIdle
  /\ PageIdle
  /\ ClientIdle

\* await extractTextFromFile(exBuffer, exType)
Extract ==
  /\ exResult.kind = "none"
  /\ exResult' = extractTextFromFile(exBuffer, exType, exDecoder)
  /\ UNCHANGED << exBuffer, exType, exDecoder, parserVars, uploadVars, clientVars, searchVars, pageVars >>

NextExtract == Extract

SpecExtract == InitExtract /\ [][NextExtract]_vars

-----------------------------------------------------------------------------
(* POST /api/resume/upload *)

\* limits.fileSize
FileSizeLimit == 10 * 1024 * 1024

allowedTypes == { Pdf, Docx, Txt }

\* the largest number of fragments in the text of an uploaded file
MaxUploadFrags == 1

UploadTexts == UNION { TextsOf(n) : n \in 0..MaxUploadFrags }

\* the leading bytes of the plain-text uploads: the texts in UTF-8, and one
\* buffer that is not UTF-8
TxtHeads == { Utf8Encode(CodesOf(t)) : t \in UploadTexts } \cup { << 255, 65 >> }

\* the content types of the uploads
UploadTypes == allowedTypes \cup { "image/png", "application/msword" }

\* A request: with or without a file part "resume".  `head` holds the leading
\* bytes of the file and `size` counts all of them; a file within the limit
\* is all in `head`.
FileRequest(mimetype, head, size) ==
  [hasFile |-> TRUE, mimetype |-> mimetype, originalname |-> "resume", size |-> size,
   head |-> head]

\* the sizes of the files that begin with `head`: the head alone, or so
\* much more that the file is over the limit
SizesOf(head) == { Len(head), FileSizeLimit + 1 }

Requests ==
  {NoRequest}
  \cup UNION { { FileRequest(Txt, h, sz) : sz \in SizesOf(h) } : h \in TxtHeads }
  \cup UNION { { FileRequest(m, h, sz) : m \in UploadTypes \ {Txt}, sz \in SizesOf(h) } :
               h \in OpaqueBuffers }

\* what uuidv4() can return
Ids == { "uuid-1", "uuid-2" }

\* what the library decoder of the type can make of the buffer; plain text
\* has no library decoder
DecodersOf(mimetype) ==
  IF mimetype \in {Pdf, Docx}
  THEN {DecoderThrows} \cup { DecoderText(CodesOf(t)) : t \in UploadTexts }
  ELSE {DecoderThrows}

\* A file filter that lets every type through
fileFilterOpen(mimetype) == None

\* fileFilter: the error it passes to cb, if any
fileFilter(mimetype) ==
  IF mimetype \in allowedTypes THEN None
  ELSE Some("Invalid file type. Only PDF, DOCX, and TXT files are allowed.")

\* upload.single('resume') on a request: the err it calls back with and the
\* req.file it leaves.  The filter runs before the bytes are read; a file
\* over limits.fileSize ends in a MulterError.
uploadSingle(req) ==
  IF ~req.hasFile THEN [err |-> None, file |-> NoFile]
  ELSE IF fileFilter(req.mimetype) # None
  THEN [err |-> fileFilter(req.mimetype), file |-> NoFile]
  ELSE IF req.size > FileSizeLimit THEN [err |-> Some("File too large"), file |-> NoFile]
  ELSE [err |-> None,
        file |-> [present |-> TRUE, mimetype |-> req.mimetype,
                  originalname |-> req.originalname, size |-> req.size,
                  buffer |-> req.head]]

Response(status, body) == [status |-> status, body |-> body]

\* resumeSchema.parse(resumeData); res.json(validatedData), or the catch
ResponseFor(data) ==
  IF data.threw THEN Response(500, [message |-> data.message])
  ELSE With({ IF validated.threw THEN Response(500, [message |-> validated.message])
              ELSE Response(200, validated.v) :
              validated \in { resumeSchemaParse(data.v) } })

\* A try block whose catch runs after res.json as well
TrySendsThenCatches(data) ==
  IF data.threw THEN << ResponseFor(data) >>
  ELSE << ResponseFor(data), Response(500, [message |-> "Failed to process resume"]) >>

\* What the inner try block and its catch send: res.json(validatedData) is the
\* last statement of the block, so either the block or the catch responds
TrySends(data) == << ResponseFor(data) >>

Init ==
  /\ UploadIdle
  /\ SearchIdle
  /\ PageIdle
  /\ ParserIdle
  /\ ExtractIdle
  /\ ClientIdle

\* a request arrives and the handler starts upload.single('resume')
Post ==
  /\ pc = "idle"
  /\ \E req \in Requests : request' = req
  /\ pc' = "multer"
  /\ UNCHANGED << multerErr, reqFile, extracted, resumeData, response, answers >>
  /\ UNCHANGED << parserVars, extractVars, clientVars, searchVars, pageVars >>

\* multer reads the request and calls back
UploadSingle ==
  /\ pc = "multer"
  /\ \E outcome \in { uploadSingle(request) } :
       /\ multerErr' = outcome.err
       /\ reqFile' = outcome.file
  /\ pc' = "callback"
  /\ UNCHANGED << request, extracted, resumeData, response, answers >>
  /\ UNCHANGED << parserVars, extractVars, clientVars, searchVars, pageVars >>

\* if (err) return res.status(400).json({ message: err.message || ... })
RespondMulterError ==
  /\ pc = "callback"
  /\ multerErr # None
  /\ \E answer \in { Response(400, [message |-> IF multerErr[1] = "" THEN "File upload failed"
                                                 ELSE multerErr[1]]) } :
       /\ response' = answer
       /\ answers' = Append(answers, answer)
  /\ pc' = "done"
  /\ UNCHANGED << request, multerErr, reqFile, extracted, resumeData >>
  /\ UNCHANGED << parserVars, extractVars, clientVars, searchVars, pageVars >>

\* if (!req.file) return res.status(400).json({ message: 'No file uploaded' })
RespondNoFile ==
  /\ pc = "callback"
  /\ multerErr = None
  /\ ~reqFile.present
  /\ \E answer \in { Response(400, [message |-> "No file uploaded"]) } :
       /\ response' = answer
       /\ answers' = Append(answers, answer)
  /\ pc' = "done"
  /\ UNCHANGED << request, multerErr, reqFile, extracted, resumeData >>
  /\ UNCHANGED << parserVars, extractVars, clientVars, searchVars, pageVars >>

\* processResume(req.file), resumeSchema.parse, res.json; 500 from the catch
ProcessUpload ==
  /\ pc = "callback"
  /\ multerErr = None
  /\ reqFile.present
  /\ \E decoder \in DecodersOf(reqFile.mimetype), id \in Ids :
       \E extraction \in { extractTextFromFile(reqFile.buffer, reqFile.mimetype, decoder) } :
         \E data \in { processResume(reqFile, extraction, id) } :
           /\ extracted' = extraction
           /\ resumeData' = data
           /\ response' = ResponseFor(data)
           /\ answers' = answers \o TrySends(data)
  /\ pc' = "done"
  /\ UNCHANGED << request, multerErr, reqFile >>
  /\ UNCHANGED << parserVars, extractVars, clientVars, searchVars, pageVars >>

Next == Post \/ UploadSingle \/ RespondMulterError \/ RespondNoFile \/ ProcessUpload

Spec == Init /\ [][Next]_vars

-----------------------------------------------------------------------------
(* The client: utils/resumeParser and the components that read the resume *)

\* programmingLanguages, frameworks and tools, in the order of allKeywords
allKeywords ==
  << "JavaScript", "TypeScript", "Python", "Java", "C#", "C++", "Ruby", "PHP",
     "Swift", "Kotlin", "Go", "Rust", "Scala", "Perl", "R",
     "React", "Angular", "Vue", "Next.js", "Node.js", "Express", "Django",
     "Flask", "Spring", "ASP.NET", "Laravel", "Rails", "TensorFlow", "PyTorch",
     "Pandas", "NumPy", "jQuery", "Bootstrap", "Tailwind CSS",
     "Docker", "Kubernetes", "AWS", "Azure", "GCP", "Git", "CI/CD", "Jenkins",
     "GitHub Actions", "REST API", "GraphQL", "SQL", "NoSQL", "MongoDB", "MySQL",
     "PostgreSQL", "Redis", "Firebase", "Webpack", "Babel" >>

\* A RegExp constructor that takes a quantifier after a quantifier
RegExpLenient(keyword) == FALSE

\* new RegExp(`\\b${keyword}\\b`, 'i') throws a SyntaxError (nothing to
\* repeat) when a "+" of the keyword has no atom before it: the keyword goes
\* into the pattern unescaped, and of its characters "+" is a quantifier and
\* "." the wildcard.
RegExpSyntaxError(keyword) ==
  \E i \in 1..Len(keyword) :
    /\ Ch(keyword, i) = "+"
    /\ i = 1 \/ Ch(keyword, i - 1) = "+"

RECURSIVE KeywordAtoms(_, _)
\* the atoms of the keyword from position i on, each with its quantifier
KeywordAtoms(keyword, i) ==
  IF i > Len(keyword) THEN <<>>
  ELSE IF Ch(keyword, i) = "+" THEN KeywordAtoms(keyword, i + 1)
  ELSE LET atom == IF Ch(keyword, i) = "." THEN AnyChar ELSE Lit(Ch(keyword, i))
           quantified == i < Len(keyword) /\ Ch(keyword, i + 1) = "+"
       IN  << IF quantified THEN Plus(atom) ELSE atom >> \o KeywordAtoms(keyword, i + 1)

\* \b<keyword>\b
KeywordPattern(keyword) == Cat(<< WordB >> \o KeywordAtoms(keyword, 1) \o << WordB >>)

\* new RegExp(...).test(resumeText)
KeywordFound(keyword, resumeText) ==
  Matched(Match(KeywordPattern(keyword), TRUE, resumeText))

RECURSIVE FoundFrom(_, _)
\* allKeywords.filter(keyword => regex.test(resumeText)) from index k on
FoundFrom(resumeText, k) ==
  IF k > Len(allKeywords) THEN <<>>
  ELSE (IF KeywordFound(allKeywords[k], resumeText) THEN << allKeywords[k] >> ELSE <<>>)
       \o FoundFrom(resumeText, k + 1)

\* extractKeySkills: the filter builds a RegExp for every keyword of the
\* table, whatever the text, so one keyword that is no valid pattern makes
\* the call throw
extractKeySkills(resumeText) ==
  IF \E k \in 1..Len(allKeywords) : RegExpSyntaxError(allKeywords[k])
  THEN Throw
  ELSE Ok(Dedup(FoundFrom(resumeText, 1)))

\* formatResumeForDisplay(object): `object` is the object after the call,
\* which is the one it was given, with its skills assigned when they were
\* empty and extractKeySkills returned
formatResumeForDisplay(object) ==
  IF object.skills = <<>>
  THEN With({ IF keySkills.threw THEN [threw |-> TRUE, object |-> object]
              ELSE [threw |-> FALSE, object |-> [object EXCEPT !.skills = keySkills.v]] :
              keySkills \in { extractKeySkills(object.rawText) } })
  ELSE [threw |-> FALSE, object |-> object]

\* ResumeAnalysis: the fields it renders
OrNotDetected(field) == IF field = None \/ field = Some("") THEN "Not detected" ELSE field[1]

AnalysisOf(object) ==
  [ name |-> OrNotDetected(object.name), email |-> OrNotDetected(object.email),
    phone |-> OrNotDetected(object.phone), qualifications |-> object.qualifications,
    skills |-> object.skills, totalYears |-> OrNotDetected(object.totalYears),
    lastPosition |-> OrNotDetected(object.lastPosition) ]

\* JobDetails: Math.round(matchingSkills.length / resume.skills.length * 100)
SkillMatchPercentage(object, description) ==
  IF object.skills = <<>> THEN 0
  ELSE LET jobSkills == Split(Plus(Cls(Space)), FALSE, ToLower(description))
           matches(skill) == \E k \in 1..Len(jobSkills) : Includes(jobSkills[k], ToLower(skill))
           matchingSkills == Filter(matches, object.skills)
       IN  (200 * Len(matchingSkills) + Len(object.skills)) \div (2 * Len(object.skills))

\* the texts of the resumes the page receives
ClientTexts == UploadTexts \cup ProbeTexts \cup { "Perl and Rails\n" }

\* the body of the answer to a plain-text upload of the text
AnswerTo(t) ==
  With({ ResponseFor(processResume(file, extractTextFromFile(file.buffer, file.mimetype,
                                                             DecoderThrows), "uuid-1")) :
         file \in { uploadSingle(FileRequest(Txt, Utf8Encode(CodesOf(t)), Len(t))).file } })

\* the records of the 200 answers
ServerRecords ==
  { answer.body : answer \in { a \in { AnswerTo(t) : t \in ClientTexts } : a.status = 200 } }

\* descriptions of the jobs the page shows
Descriptions == { "", "python developer with excel", "Git and SQL, remote" }

InitClient ==
  /\ ClientIdle
  /\ ParserIdle
  /\ ExtractIdle
  /\ UploadIdle
  /\ SearchIdle
  /\ PageIdle

View(op, threw, value) == [op |-> op, threw |-> threw, value |-> value]

\* handleFileUpload: the answer arrived; setResume(data)
SetResume ==
  /\ \E data \in ServerRecords :
       /\ resume' = Some(data)
       /\ created' = Some(data)
  /\ shown' = NoView
  /\ UNCHANGED << parserVars, extractVars, uploadVars, searchVars, pageVars >>

\* handleRemoveFile: setResume(null)
RemoveFile ==
  /\ resume # None
  /\ resume' = None
  /\ created' = None
  /\ shown' = NoView
  /\ UNCHANGED << parserVars, extractVars, uploadVars, searchVars, pageVars >>

\* formatResumeForDisplay(resume)
FormatForDisplay ==
  /\ resume # None
  /\ \E call \in { formatResumeForDisplay(resume[1]) } :
       /\ resume' = Some(call.object)
       /\ shown' = View("format", call.threw, IF call.threw THEN <<>> ELSE call.object)
  /\ UNCHANGED << created, parserVars, extractVars, uploadVars, searchVars, pageVars >>

\* ResumeAnalysis renders the resume
ShowAnalysis ==
  /\ resume # None
  /\ shown' = View("analysis", FALSE, AnalysisOf(resume[1]))
  /\ UNCHANGED << resume, created, parserVars, extractVars, uploadVars, searchVars, pageVars >>

\* JobSearch: const recommendedSkills = resume?.skills || []
RecommendSkills ==
  /\ shown' = View("recommended", FALSE, IF resume = None THEN <<>> ELSE resume[1].skills)
  /\ UNCHANGED << resume, created, parserVars, extractVars, uploadVars, searchVars, pageVars >>

\* JobDetails renders the skill match of a job
ShowSkillMatch ==
  /\ \E description \in Descriptions :
       shown' = View("match", FALSE,
                     << description,
                        IF resume = None THEN 0
                        ELSE SkillMatchPercentage(resume[1], description) >>)
  /\ UNCHANGED << resume, created, parserVars, extractVars, uploadVars, searchVars, pageVars >>

NextClient ==
  SetResume \/ RemoveFile \/ FormatForDisplay \/ ShowAnalysis \/ RecommendSkills
    \/ ShowSkillMatch

SpecClient == InitClient /\ [][NextClient]_vars

-----------------------------------------------------------------------------
(* /api/jobs/search, searchJobs and the two fetchWithRetry helpers.  req.query *)
(* and req.body are objects on every request (the body parser is installed    *)
(* outside the route).                                                        *)

\* a || b on two optional strings
OrElse(a, b) == IF a # None /\ a[1] # "" THEN a ELSE b

\* !x on an optional string
Falsy(x) == x = None \/ x[1] = ""

\* const jobTitle = req.query.jobTitle || req.body.jobTitle, and so on;
\* page and limit default to '1' and '10' and are read with parseInt
RouteParams(req) ==
  [ jobTitle |-> OrElse(req.query.jobTitle, req.body.jobTitle),
    location |-> OrElse(req.query.location, req.body.location),
    page |-> IF req.body.page = None THEN 1 ELSE req.body.page[1],
    limit |-> IF req.body.limit = None THEN 10 ELSE req.body.limit[1] ]

\* a validation that asks for the job title only
MissingTitleOnly(jobTitle, location) == Falsy(jobTitle)

\* if (!jobTitle || !location)
MissingParams(jobTitle, location) == Falsy(jobTitle) \/ Falsy(location)

\* jobSearchSchema.parse({ jobTitle: jobTitle.toString(), location:
\* location.toString() }): toString of undefined throws a TypeError, a string
\* shorter than 1 a ZodError
jobSearchSchemaParse(jobTitle, location) ==
  IF jobTitle = None \/ location = None
  THEN [threw |-> TRUE, message |-> "Cannot read properties of undefined (reading 'toString')"]
  ELSE IF Len(jobTitle[1]) < 1 THEN [threw |-> TRUE, message |-> "Job title is required"]
  ELSE IF Len(location[1]) < 1 THEN [threw |-> TRUE, message |-> "Location is required"]
  ELSE [threw |-> FALSE, message |-> ""]

\* fetchWithRetry(url, maxRetries = 3)
maxRetries == 3

\* Math.min(1000 * Math.pow(2, n), 5000)
Backoff(n) == Min(1000 * (2 ^ n), 5000)

\* 2000 * (attempt + 1), waited after a 429
RateLimitWait(n) == 2000 * (n + 1)

\* what a request came to: a response with a status (ok for 200), or a
\* network error
ResponseOf(status, data) ==
  [kind |-> "response", ok |-> status \in 200..299, status |-> status, data |-> data]
NetworkError == [kind |-> "network", ok |-> FALSE, status |-> 0, data |-> <<>>]

\* a loop that goes on after every response
FailedAlways(outcome) == TRUE

\* the request did not give an ok response: the loop goes on
Failed(outcome) == ~(outcome.kind = "response" /\ outcome.ok)

\* lastError of the server helper after the attempt
ServerError(outcome) ==
  IF outcome.kind = "network" THEN "network error"
  ELSE "SerpAPI request failed with status: " \o ToString(outcome.status) \o ". "

\* lastError of the client helper after the attempt
ClientError(outcome) ==
  IF outcome.kind = "network" THEN "network error"
  ELSE "Request failed with status " \o ToString(outcome.status) \o ": "

\* the time the server helper waits after a failed attempt: the wait for a
\* 429, then the wait before the next attempt when there is one
ServerWait(n, outcome) ==
  (IF outcome.kind = "response" /\ outcome.status = 429 THEN RateLimitWait(n) ELSE 0)
  + (IF n < maxRetries - 1 THEN Backoff(n) ELSE 0)

\* the time the client helper waits after a failed attempt; retries is the
\* counter after retries++
ClientWait(retries) == IF retries < maxRetries THEN Backoff(retries) ELSE 0

\* jobs_results.map(job => ({ ..., isRemote: work_from_home || false }))
MapJob(job) ==
  [ title |-> job.title, location |-> job.location,
    isRemote |-> (job.work_from_home = Some(TRUE)) ]

\* a filter that keeps every job
LocationFilterOff(job, location) == TRUE

\* jobLocation.includes(requestedLocation) ||
\* (requestedLocation.includes('remote') && job.isRemote === true)
LocationFilter(job, location) ==
  With({ \/ Includes(ToLower(job.location), requestedLocation)
         \/ (Includes(requestedLocation, "remote") /\ job.isRemote = TRUE) :
         requestedLocation \in { Trim(ToLower(location)) } })

RECURSIVE FilterJobs(_, _)
\* jobs.filter(job => ...)
FilterJobs(jobs, location) ==
  IF jobs = <<>> THEN <<>>
  ELSE (IF LocationFilter(Head(jobs), location) THEN << Head(jobs) >> ELSE <<>>)
       \o FilterJobs(Tail(jobs), location)

\* an end index one past the right one: array.slice(start, end + 1)
SliceInclusive(array, start, end) ==
  IF start >= Min(end + 1, Len(array)) THEN <<>>
  ELSE SubSeq(array, start + 1, Min(end + 1, Len(array)))

\* array.slice(start, end) for start, end >= 0
Slice(array, start, end) ==
  IF start >= Min(end, Len(array)) THEN <<>> ELSE SubSeq(array, start + 1, Min(end, Len(array)))

\* searchJobs after the response of fetchWithRetry: data.error throws, no
\* jobs_results gives the empty answer, else map, filter and paginate
searchJobsResult(data, location, page, limit) ==
  IF data.error # None THEN [threw |-> TRUE, message |-> "SerpAPI error: " \o data.error[1], v |-> <<>>]
  ELSE IF data.jobs_results = None
  THEN [threw |-> FALSE, message |-> "", v |-> [jobs |-> <<>>, totalResults |-> 0]]
  ELSE With({ [threw |-> FALSE, message |-> "",
               v |-> [jobs |-> Slice(filteredJobs, (page - 1) * limit, (page - 1) * limit + limit),
                      totalResults |-> Len(filteredJobs)]] :
              filteredJobs \in { FilterJobs([ k \in 1..Len(data.jobs_results[1]) |->
                                               MapJob(data.jobs_results[1][k]) ], location) } })

\* res.json(results), or the catch block of the route
SearchResponseFor(result) ==
  IF result.threw THEN Response(500, [message |-> result.message])
  ELSE Response(200, result.v)

\* the listings of the provider
SerpApiJob(title, location, work_from_home) ==
  [title |-> title, location |-> location, work_from_home |-> work_from_home]
ProviderJobs ==
  << SerpApiJob("Data Engineer", "Austin, TX", None),
     SerpApiJob("Nurse", "Remote", Some(FALSE)),
     SerpApiJob("Engineer", "Dallas, TX", Some(TRUE)),
     SerpApiJob("Engineer II", "AUSTIN", None) >>

\* the bodies of the provider's ok responses
ProviderData ==
  { [error |-> None, jobs_results |-> Some(ProviderJobs)],
    [error |-> None, jobs_results |-> None],
    [error |-> Some("quota"), jobs_results |-> None] }

\* what a request to the provider can come to
ProviderOutcomes ==
  { ResponseOf(200, d) : d \in ProviderData }
  \cup { ResponseOf(st, <<>>) : st \in {429, 500} } \cup { NetworkError }

\* what a request of the page to the route can come to
RouteOutcomes == { ResponseOf(st, <<>>) : st \in {200, 400, 429, 500} } \cup { NetworkError }

SearchRequestOf(queryLocation, bodyTitle, bodyLocation, page, limit) ==
  [ query |-> [jobTitle |-> None, location |-> queryLocation],
    body |-> [jobTitle |-> bodyTitle, location |-> bodyLocation, page |-> page, limit |-> limit] ]

\* the search requests: with and without a title, with a location in the
\* query, in the body or nowhere, with and without paging
SearchRequests ==
  { SearchRequestOf(ql, bt, bl, pg, lm) :
      ql \in { None, Some("") }, bt \in { None, Some("nurse, engineer") },
      bl \in { None, Some(""), Some("austin"), Some(" Austin "), Some("Remote") },
      pg \in { None, Some(2) }, lm \in { None, Some(1) } }
  \cup { SearchRequestOf(Some("Dallas"), Some(","), None, None, None) }

\* the route up to the first request to the provider: the parameters, the
\* two validations, and the key test of searchJobs
RouteOn(requests) ==
  /\ sPc = "idle"
  /\ \E req \in requests : \E p \in { RouteParams(req) } :
       /\ search' = req
       /\ caller' = "server"
       /\ IF MissingParams(p.jobTitle, p.location)
          THEN /\ searchResponse' = Response(400, [message |-> "Job title and location are required"])
               /\ sPc' = "done"
          ELSE IF jobSearchSchemaParse(p.jobTitle, p.location).threw
          THEN /\ searchResponse' =
                    Response(500, [message |-> jobSearchSchemaParse(p.jobTitle, p.location).message])
               /\ sPc' = "done"
          ELSE IF SERPAPI_KEY = None
          THEN /\ searchResponse' =
                    Response(500, [message |-> "SERPAPI_KEY is not set. Please set it in your environment variables."])
               /\ sPc' = "done"
          ELSE /\ sPc' = "fetching"
               /\ UNCHANGED searchResponse
  /\ UNCHANGED << SERPAPI_KEY, attempt, sent, waits, lastError, fetched >>
  /\ UNCHANGED << parserVars, extractVars, uploadVars, clientVars, pageVars >>

SearchRequest == RouteOn(SearchRequests)

\* one pass of the loop of the server's fetchWithRetry: the request, then
\* the return of the ok response and the rest of searchJobs and of the route,
\* or lastError and the waits; after the last pass, throw lastError, which
\* searchJobs throws on and the route answers with 500
ServerAttempt ==
  /\ caller = "server"
  /\ sPc = "fetching"
  /\ attempt < maxRetries
  /\ \E outcome \in ProviderOutcomes, p \in { RouteParams(search) } :
       /\ sent' = Append(sent, outcome)
       /\ IF ~Failed(outcome)
          THEN /\ fetched' = [kind |-> "returned", response |-> outcome, error |-> ""]
               /\ searchResponse' =
                    SearchResponseFor(searchJobsResult(outcome.data, p.location[1], p.page, p.limit))
               /\ sPc' = "done"
               /\ UNCHANGED << attempt, waits, lastError >>
          ELSE /\ lastError' = Some(ServerError(outcome))
               /\ waits' = Append(waits, ServerWait(attempt, outcome))
               /\ attempt' = attempt + 1
               /\ IF attempt + 1 < maxRetries
                  THEN UNCHANGED << fetched, searchResponse, sPc >>
                  ELSE /\ fetched' = [kind |-> "threw", response |-> <<>>,
                                      error |-> ServerError(outcome)]
                       /\ searchResponse' = Response(500, [message |-> ServerError(outcome)])
                       /\ sPc' = "done"
  /\ UNCHANGED << SERPAPI_KEY, caller, search >>
  /\ UNCHANGED << parserVars, extractVars, uploadVars, clientVars, pageVars >>

\* the page posts a search: queryFn calls fetchWithRetry('/api/jobs/search')
ClientSearch ==
  /\ sPc = "idle"
  /\ \E req \in SearchRequests : search' = req
  /\ caller' = "client"
  /\ sPc' = "fetching"
  /\ UNCHANGED << SERPAPI_KEY, attempt, sent, waits, lastError, fetched, searchResponse >>
  /\ UNCHANGED << parserVars, extractVars, uploadVars, clientVars, pageVars >>

\* one pass of the loop of the client's fetchWithRetry
ClientAttempt ==
  /\ caller = "client"
  /\ sPc = "fetching"
  /\ attempt < maxRetries
  /\ \E outcome \in RouteOutcomes :
       /\ sent' = Append(sent, outcome)
       /\ IF ~Failed(outcome)
          THEN /\ fetched' = [kind |-> "returned", response |-> outcome, error |-> ""]
               /\ sPc' = "done"
               /\ UNCHANGED << attempt, waits, lastError >>
          ELSE /\ lastError' = Some(ClientError(outcome))
               /\ waits' = Append(waits, ClientWait(attempt + 1))
               /\ attempt' = attempt + 1
               /\ IF attempt + 1 < maxRetries
                  THEN UNCHANGED << fetched, sPc >>
                  ELSE /\ fetched' = [kind |-> "threw", response |-> <<>>,
                                      error |-> ClientError(outcome)]
                       /\ sPc' = "done"
  /\ UNCHANGED << SERPAPI_KEY, caller, search, searchResponse >>
  /\ UNCHANGED << parserVars, extractVars, uploadVars, clientVars, pageVars >>

\* One search, by a request to the route or by the page
InitSearch ==
  /\ ParserIdle
  /\ ExtractIdle
  /\ UploadIdle
  /\ ClientIdle
  /\ PageIdle
  /\ SERPAPI_KEY \in { None, Some("key") }
  /\ caller = "none"
  /\ sPc = "idle"
  /\ search = NoSearch
  /\ attempt = 0
  /\ sent = <<>>
  /\ waits = <<>>
  /\ lastError = None
  /\ fetched = NotFetched
  /\ searchResponse = NoResponse

NextSearch == SearchRequest \/ ServerAttempt \/ ClientSearch \/ ClientAttempt

SpecSearch == InitSearch /\ [][NextSearch]_vars

\* every request completes and every timer fires: a pass of the loop that
\* can be taken is taken
SpecSearchFair == SpecSearch /\ WF_vars(ServerAttempt) /\ WF_vars(ClientAttempt)

-----------------------------------------------------------------------------
(* Claims about parseResumeText *)

Returned == calls >= 1 /\ ~parsed.threw

\* C1: the qualifications and the skills of a returned record hold no two
\* equal entries, whatever the text.
C1_NoDuplicateEntries ==
  Returned => /\ NoDuplicates(parsed.v.qualifications)
              /\ NoDuplicates(parsed.v.skills)

\* C1 witness: a call whose degrees array and skills array both held an entry
\* twice before the record was built.
C1_DuplicatesCollected ==
  /\ Returned
  /\ ~NoDuplicates(degreesLeft)
  /\ ~NoDuplicates(skillsLeft)

\* C3: parseResumeText throws for no text, and a pattern that does not match
\* leaves its field absent in the record returned.
C3_NeverThrows ==
  calls >= 1 =>
    /\ ~parsed.threw
    /\ ~Matched(Match(namePattern, FALSE, input)) => parsed.v.name = None
    /\ ~Matched(Match(emailPattern, FALSE, input)) => parsed.v.email = None
    /\ ~Matched(Match(phonePattern, FALSE, input)) => parsed.v.phone = None
    /\ ~Matched(Match(experiencePattern, TRUE, input)) => parsed.v.totalYears = None
    /\ ~Matched(Match(SectionPattern("experience"), TRUE, input)) =>
         parsed.v.lastPosition = None

\* C3 witness: a text in which a degree pattern without a capture group
\* matched (match[1] is undefined) while the name, email, phone, years and
\* position patterns did not.
C3_UnmatchedPatterns ==
  /\ Returned
  /\ parsed.v.qualifications = << "MBA", "mba" >>
  /\ parsed.v.name = None /\ parsed.v.email = None /\ parsed.v.phone = None
  /\ parsed.v.totalYears = None /\ parsed.v.lastPosition = None

-----------------------------------------------------------------------------
(* Claims about extractTextFromFile *)

ExtractSettled == exResult.kind # "none"

\* C5: a call with a content type other than the three supported ones is
\* rejected with an error whose message names that type, and no decoder is
\* invoked on the buffer.
C5_UnsupportedTypeRejected ==
  (ExtractSettled /\ exType \notin {Pdf, Docx, Txt}) =>
    /\ exResult.kind = "rejected"
    /\ exResult.message = "Unsupported file type: " \o exType
    /\ exResult.invoked = <<>>

\* C5 witness: a call with "image/png" has been rejected.
C5_PngRejected ==
  /\ exType = "image/png"
  /\ exResult.kind = "rejected"
  /\ Includes(exResult.message, "image/png")

C8_Utf8Passthrough ==
  (ExtractSettled /\ exType = Txt /\ WellFormed(exBuffer)) =>
    /\ exResult.kind = "resolved"
    /\ \A k \in 1..Len(exResult.text) : IsScalar(exResult.text[k])
    /\ Utf8Encode(exResult.text) = exBuffer

\* C8 witness: a buffer that begins with a byte order mark and goes on with
\* an A has been decoded to U+FEFF and A.
C8_MarkKept ==
  /\ exType = Txt
  /\ exBuffer = << 239, 187, 191, 65 >>
  /\ exResult.kind = "resolved"
  /\ exResult.text = << 65279, 65 >>

-----------------------------------------------------------------------------
(* Claims about the upload endpoint *)

Answered == pc = "done"

\* processResume returned a record
Processed == Answered /\ extracted.kind = "resolved" /\ ~resumeData.threw

StartsWithError(str) == Len(str) >= 6 /\ SubSeq(str, 1, 6) = "Error:"

\* C2 as stated: every upload of an allowed type within the size limit is
\* answered with 200 and the record processResume built.
C2_AllowedUploadSucceeds ==
  (Answered /\ request.hasFile /\ request.mimetype \in {Pdf, Docx, Txt}
     /\ request.size <= 10 * 1024 * 1024) =>
    /\ response.status = 200
    /\ response.body = resumeData.v

\* C7 as stated: the rawText of a processed upload begins with "Error:" if
\* and only if a decoder exception was absorbed.
C7_ErrorPrefixIffFailed ==
  Processed => (StartsWithError(resumeData.v.rawText) <=> extracted.absorbed)

\* C7: when a decoder exception was absorbed, the rawText of the record is
\* the sentinel of the format and begins with "Error:"; in every case the
\* rawText is the text the extraction resolved to.
C7_FailedHasErrorPrefix ==
  Processed =>
    /\ extracted.absorbed =>
         /\ extracted.text \in {PdfSentinel, DocxSentinel}
         /\ StartsWithError(resumeData.v.rawText)
    /\ resumeData.v.rawText = StringOf(extracted.text)

\* C7 witness: the PDF decoder threw on an uploaded file and the record was
\* built from the sentinel.
C7_SentinelRecord ==
  /\ Processed
  /\ request.mimetype = Pdf
  /\ extracted.absorbed
  /\ StartsWithError(resumeData.v.rawText)

\* C10: an upload of a type outside the allow-list, an upload of more than
\* 10 MiB and a request without a file are answered with 400 and a message
\* that names the problem, and nothing of them reaches processResume.
C10_RejectedUploads ==
  Answered =>
    /\ (request.hasFile /\ request.mimetype \notin {Pdf, Docx, Txt}) =>
         /\ response = Response(400, [message |->
              "Invalid file type. Only PDF, DOCX, and TXT files are allowed."])
         /\ extracted = NotExtracted /\ resumeData = NotProcessed
    /\ (request.hasFile /\ request.size > 10 * 1024 * 1024) =>
         /\ response.status = 400
         /\ request.mimetype \in {Pdf, Docx, Txt} =>
              response.body = [message |-> "File too large"]
         /\ extracted = NotExtracted /\ resumeData = NotProcessed
    /\ ~request.hasFile =>
         /\ response = Response(400, [message |-> "No file uploaded"])
         /\ extracted = NotExtracted /\ resumeData = NotProcessed

\* C10 witness: a plain-text file of more than 10 MiB has been answered
\* with 400.
C10_OversizeAnswered ==
  /\ Answered
  /\ request.hasFile
  /\ request.mimetype = Txt
  /\ request.size > 10 * 1024 * 1024
  /\ response.status = 400

-----------------------------------------------------------------------------
(* Claims about the record downstream *)

-----------------------------------------------------------------------------
(* Claims about the fields parseResumeText extracts *)

AsSet(seq) == { seq[k] : k \in 1..Len(seq) }

\* sub stands in s right after its first n characters
StandsAfter(s, n, sub) == n + Len(sub) <= Len(s) /\ SubSeq(s, n + 1, n + Len(sub)) = sub

\* C11: a Skills section with the body "Python, Excel, SQL" puts every token
\* of the list into the skills of the record, wherever the section stands in
\* the text.
C11_ListedSkillsCollected ==
  (Returned /\ Includes(input, "Skills: Python, Excel, SQL"))
    => {"Python", "Excel", "SQL"} \subseteq AsSet(parsed.v.skills)

\* the characters of the local part and of the domain of an address
LocalChars == Word \cup {".", "_", "%", "+", "-"}
DomainChars == Word \cup {".", "-"}

\* the dots after the at sign at position a that end a domain and are
\* followed by two letters at least
TldDots(s, a) ==
  { d \in (a + 2)..(Len(s) - 2) :
      /\ Ch(s, d) = "."
      /\ \A k \in (a + 1)..(d - 1) : Ch(s, k) \in DomainChars
      /\ Ch(s, d + 1) \in Letter /\ Ch(s, d + 2) \in Letter }

\* the at signs with a local part before them and a domain and a top-level
\* name after them
AtSigns(s) ==
  { a \in 2..Len(s) : Ch(s, a) = "@" /\ Ch(s, a - 1) \in LocalChars /\ TldDots(s, a) # {} }

\* the first substring of s of the shape local@domain.tld, taken as long as
\* the shape allows on both sides (s holds one)
FirstAddress(s) ==
  LET a == CHOOSE x \in AtSigns(s) : \A y \in AtSigns(s) : x <= y
      i == CHOOSE p \in 1..(a - 1) :
             /\ \A k \in p..(a - 1) : Ch(s, k) \in LocalChars
             /\ p = 1 \/ Ch(s, p - 1) \notin LocalChars
      d == CHOOSE x \in TldDots(s, a) : \A y \in TldDots(s, a) : x >= y
      e == CHOOSE q \in (d + 2)..Len(s) :
             /\ \A k \in (d + 1)..q : Ch(s, k) \in Letter
             /\ q = Len(s) \/ Ch(s, q + 1) \notin Letter
  IN  SubSeq(s, i, e)

\* C12: the email of the record is the first substring of the text of the
\* shape local@domain.tld, whole and with nothing around it; a text that
\* holds "jane.doe@example.com" before any other address gives that string.
C12_EmailIsFirstAddress ==
  Returned =>
    /\ AtSigns(input) # {} => parsed.v.email = Some(FirstAddress(input))
    /\ AtSigns(input) = {} => parsed.v.email = None
    /\ (\E n \in 0..Len(input) :
          /\ ~Includes(SubSeq(input, 1, n), "@")
          /\ StandsAfter(input, n, "jane.doe@example.com. ")
          /\ (n = 0 \/ Ch(input, n) \in Space))
         => parsed.v.email = Some("jane.doe@example.com")

\* C12 witness: the address stands after a line of other text and before a
\* full stop, and the record holds exactly the address.
C12_AddressInsideText ==
  /\ Returned
  /\ input = "Jane Doe\njane.doe@example.com. "
  /\ parsed.v.email = Some("jane.doe@example.com")

\* C13: totalYears is "<N> years" for the number N of the first match of
\* "<N>[+] year(s) [of] experience", whatever its case, and absent when the
\* text has no match.
C13_TotalYearsOfFirstMatch ==
  Returned =>
    /\ LET m == Match(experiencePattern, TRUE, input)
       IN  /\ Matched(m) => parsed.v.totalYears = Some(Group(input, m) \o " years")
           /\ ~Matched(m) => parsed.v.totalYears = None
    /\ parsed.v.totalYears # None =>
         \E n \in 1..2 : \E k \in 1..Len(input) :
           /\ k + n - 1 <= Len(input)
           /\ \A j \in k..(k + n - 1) : Ch(input, j) \in Digit
           /\ parsed.v.totalYears = Some(SubSeq(input, k, k + n - 1) \o " years")
    /\ (\E n \in 0..Len(input) :
          /\ StandsAfter(input, n, "5+ years of experience")
          /\ ~Includes(SubSeq(input, 1, n + 21), "experience"))
         => parsed.v.totalYears = Some("5 years")
    /\ ~Includes(ToLower(input), "experience") => parsed.v.totalYears = None

\* C13 witness: "5+ years of experience" after a telephone number, whose
\* digits are no part of the number of years.
C13_PlusAndOfIgnored ==
  /\ Returned
  /\ input = "555-123-4567 5+ years of experience\n"
  /\ parsed.v.totalYears = Some("5 years")

\* no degree pattern matches the text
NoDegreeMatch(text) ==
  \A k \in 1..Len(degreePatterns) : ~Matched(Match(degreePatterns[k], TRUE, text))

\* C14: every record returned has its qualifications and its skills assigned,
\* each a list; a text without a degree match has the empty list as its
\* qualifications.
C14_ListsAlwaysPresent ==
  Returned =>
    /\ {"qualifications", "skills"} \subseteq assigned
    /\ DOMAIN parsed.v.qualifications = 1..Len(parsed.v.qualifications)
    /\ DOMAIN parsed.v.skills = 1..Len(parsed.v.skills)
    /\ NoDegreeMatch(input) => parsed.v.qualifications = <<>>

\* C14 witness: a text with a name and a skill but no degree: the
\* qualifications are assigned and empty.
C14_EmptyQualifications ==
  /\ Returned
  /\ NoDegreeMatch(input)
  /\ parsed.v.name # None
  /\ parsed.v.skills # <<>>
  /\ parsed.v.qualifications = <<>>
  /\ "qualifications" \in assigned

\* C19: a degree followed by a field gives the entry "<degree> in <field>",
\* the degree being the abbreviation alone, whether the text joins the two
\* with " in ", with " - " or with a blank.
C19_DegreeInField ==
  Returned =>
    /\ Includes(input, "B.S. in Math, ") => "B.S. in Math" \in AsSet(parsed.v.qualifications)
    /\ Includes(input, "M.S. - Physics\n") => "M.S. in Physics" \in AsSet(parsed.v.qualifications)
    /\ Includes(input, "B.S. Math, ") => "B.S. in Math" \in AsSet(parsed.v.qualifications)

\* the section captured under a heading keyword, and where it was found
SectionMatch(keyword) == Match(SectionPattern(keyword), TRUE, input)

\* the capture starts at a line that begins with the keyword and ends at the
\* next blank line or the next line that starts with a capital letter
CapturedAsSpecified(keyword) ==
  LET m == SectionMatch(keyword)
  IN  Matched(m) =>
        /\ m.index = 1 \/ Ch(input, m.index - 1) = "\n"
        /\ \/ StandsAfter(input, m.c[2] - 1, "\n\n")
           \/ \E c \in Upper : StandsAfter(input, m.c[2] - 1, "\n" \o c)

\* C20: the Skills and Experience sections are looked for at the beginning of
\* a line and captured up to the next blank line or the next line that starts
\* with a capital letter, lines that start with a lower-case letter included.
C20_SectionCapture ==
  calls >= 1 =>
    /\ CapturedAsSpecified("skills")
    /\ CapturedAsSpecified("experience")
    /\ (input = "Skills: Word\nand excel\n\n" /\ ~parsed.threw)
         => "and excel" \in AsSet(parsed.v.skills)

-----------------------------------------------------------------------------
(* Claims about the job search *)

\* the route answered a search with the provider's listings
SearchAnswered ==
  /\ caller = "server"
  /\ sPc = "done"
  /\ searchResponse.status = 200
  /\ fetched.kind = "returned"

\* the location the request asked for
RequestedLocation == RouteParams(search).location[1]

\* the listings of the response the provider gave, as jobs
ProvidedJobs ==
  IF fetched.response.data.jobs_results = None THEN <<>>
  ELSE [ k \in 1..Len(fetched.response.data.jobs_results[1]) |->
           MapJob(fetched.response.data.jobs_results[1][k]) ]

\* the location of the job holds `wanted` whatever the case, or `wanted`
\* mentions "remote" and the job has the remote flag
PassesFor(job, wanted) ==
  \/ Includes(ToLower(job.location), ToLower(wanted))
  \/ (Includes(ToLower(wanted), "remote") /\ job.isRemote)

\* every job of the answer passes for `wanted`, and totalResults counts the
\* listings that pass
FilteredFor(wanted) ==
  /\ \A k \in 1..Len(searchResponse.body.jobs) : PassesFor(searchResponse.body.jobs[k], wanted)
  /\ searchResponse.body.totalResults =
       Cardinality({ k \in 1..Len(ProvidedJobs) : PassesFor(ProvidedJobs[k], wanted) })

\* C15 as stated: every job returned holds the requested location, as the
\* request gave it, in its location (or is remote for a "remote" request),
\* and totalResults counts every listing of the provider that does.
C15_FilteredByRequestedLocation == SearchAnswered => FilteredFor(RequestedLocation)

\* C15: every job returned holds the requested location, trimmed of the
\* white space around it, in its location whatever the case, or the request
\* mentions "remote" and the job has the remote flag; totalResults counts
\* every listing of the provider that passes.
C15_FilteredByTrimmedLocation == SearchAnswered => FilteredFor(Trim(RequestedLocation))

\* C15 witness: a request for " Austin " with one job a page: two listings
\* pass, in different case, and the first of them is returned.
C15_AustinPage ==
  /\ SearchAnswered
  /\ RequestedLocation = " Austin "
  /\ searchResponse.body.totalResults = 2
  /\ Len(searchResponse.body.jobs) = 1
  /\ searchResponse.body.jobs[1].location = "Austin, TX"

\* the request has no location, in the query or in the body
NoLocation == Falsy(search.query.location) /\ Falsy(search.body.location)

\* C16: a search request without a location is answered with 400, and no
\* request goes to the provider for it.
C16_NoLocationRejected ==
  (caller = "server" /\ NoLocation) =>
    /\ sPc = "done"
    /\ searchResponse.status = 400
    /\ sent = <<>>
    /\ fetched = NotFetched

\* C16 witness: a request with a title, no location, and the provider's key
\* set, answered with 400.
C16_TitleWithoutLocation ==
  /\ caller = "server"
  /\ NoLocation
  /\ ~Falsy(search.body.jobTitle)
  /\ SERPAPI_KEY # None
  /\ searchResponse.status = 400

\* the request was answered with status 200
IsOk(outcome) == outcome.kind = "response" /\ outcome.status = 200

\* the error an attempt leaves, by the helper that made it
ErrorOfAttempt(outcome) ==
  IF caller = "server" THEN ServerError(outcome) ELSE ClientError(outcome)

\* at most three requests, each after a failed one; an ok response is
\* returned at once; after three failures the error of the third is thrown
RetrySafety ==
  /\ Len(sent) <= 3
  /\ \A k \in 1..(Len(sent) - 1) : ~IsOk(sent[k])
  /\ fetched.kind = "returned" <=> (sent # <<>> /\ IsOk(sent[Len(sent)]))
  /\ fetched.kind = "returned" => fetched.response = sent[Len(sent)]
  /\ fetched.kind = "threw" <=> (Len(sent) = 3 /\ ~IsOk(sent[3]))
  /\ fetched.kind = "threw" =>
       /\ fetched.error = ErrorOfAttempt(sent[3])
       /\ lastError = Some(fetched.error)

\* C17: a call of fetchWithRetry, on the server or in the page, issues at
\* most three requests, each one after the one before it failed, returns the
\* first ok response and issues no request after it, throws the error of the
\* third attempt after three failures, and comes to an end when every
\* request completes.
C17_BoundedRetry ==
  /\ []RetrySafety
  /\ [][fetched.kind # "none" => sent' = sent]_vars
  /\ (sPc = "fetching") ~> (fetched.kind # "none")

\* C17 witness: the server's helper returns the response of its third
\* request, after a 429 and a network error.
C17_ThirdAttemptReturned ==
  /\ caller = "server"
  /\ fetched.kind = "returned"
  /\ Len(sent) = 3
  /\ sent[1].status = 429
  /\ sent[2].kind = "network"
  /\ IsOk(sent[3])

\* C18: in the server's fetchWithRetry the time waited between a failed
\* attempt and the next one grows from attempt to attempt and is never over
\* 5000 ms, whatever the failure.
C18_WaitsGrowUnderCap ==
  caller = "server" =>
    \A k \in 1..Len(waits) :
      k < maxRetries =>
        /\ waits[k] <= 5000
        /\ k > 1 => waits[k] > waits[k - 1]

-----------------------------------------------------------------------------
(* Calls of parseResumeText on texts with an Experience section *)

PositionHeadings == { "Experience:\n", "Work experience\n" }
PositionBullets == { "", "- " }
PositionTitles == { "Data Engineer", "Product Manager" }
PositionCompanies == { "", " at Acme", " @ Acme", " | Acme", " at A&B Co" }
PositionTails == { "", ", then Software Engineer at Initech", "\n- Software Engineer" }
PositionEndings == { "\n\n", "\nSkills" }

\* a heading, a first line made of a bullet, a title and a company, more
\* text, and the end of the section
PositionText(heading, bullet, title, company, tail, ending) ==
  heading \o bullet \o title \o company \o tail \o ending

PositionTexts ==
  { PositionText(h, b, t, c, tl, e) :
      h \in PositionHeadings, b \in PositionBullets, t \in PositionTitles,
      c \in PositionCompanies, tl \in PositionTails, e \in PositionEndings }

\* One call on any text with an Experience section
InitPosition ==
  /\ input \in PositionTexts
  /\ prevInput = ""
  /\ parsed = NotCalled
  /\ calls = 0
  /\ firstText = input
  /\ firstParsed = NotCalled
  /\ skillsLeft = <<>>
  /\ degreesLeft = <<>>
  /\ assigned = {}
  /\ ExtractIdle
  /\ UploadIdle
  /\ SearchIdle
  /\ PageIdle
  /\ ClientIdle

SpecPosition == InitPosition /\ [][NextParser]_vars

-----------------------------------------------------------------------------
(* Claims about lastPosition *)

\* C21: when the first line of the Experience section is a title, one of
\* the separators "at", "@", "|" and a company, lastPosition is the whole
\* span of the three.
C21_WholeSpanKept ==
  Returned =>
    \A h \in PositionHeadings, t \in PositionTitles, tl \in PositionTails,
       e \in PositionEndings, c \in { " at Acme", " @ Acme", " | Acme" } :
      input = PositionText(h, "", t, c, tl, e) => parsed.v.lastPosition = Some(t \o c)

\* the captured Experience sections of the text of the call: one or none
ExperienceSections ==
  UNION { IF Matched(m) THEN { Group(input, m) } ELSE {} :
          m \in { Match(SectionPattern("experience"), TRUE, input) } }

\* the section is not empty and none of its lines begins with a word
\* character or a blank, so the line pattern finds nothing in it
NoLineToMatch(section) ==
  /\ section # ""
  /\ \A i \in 1..Len(section) :
       (i = 1 \/ Ch(section, i - 1) = "\n") => Ch(section, i) \notin (Word \cup Space)

\* the titles of the texts, in the order the fixed list has them
TitleOrder == << "Software Engineer", "Data Engineer", "Product Manager" >>

\* the first title, in the order of the fixed list, that the section holds
FirstListedTitle(section) ==
  TitleOrder[CHOOSE k \in 1..Len(TitleOrder) :
               /\ Includes(section, TitleOrder[k])
               /\ \A j \in 1..(k - 1) : ~Includes(section, TitleOrder[j])]

\* the companies that follow the title in the section, each after blanks, a
\* separator and blanks: the words up to the next character that is no part
\* of a company
CompaniesAfter(section, title) ==
  { company \in { "Acme", "Initech", "A&B Co" } :
      \E sep \in { " at ", " @ ", " | " }, stop \in { ",", "\n-", "." } :
        Includes(section \o ".", title \o sep \o company \o stop) }

\* C22: when the line pattern finds nothing in the Experience section,
\* lastPosition starts with the title that comes first in the fixed list
\* among those the section holds, wherever they stand in the text, and
\* " at <company>" follows it exactly when the title is followed by a
\* separator and a company.
C22_ListOrderWins ==
  Returned =>
    \A section \in ExperienceSections :
      NoLineToMatch(section) =>
        \A title \in { FirstListedTitle(section) } :
          \A companies \in { CompaniesAfter(section, title) } :
            /\ companies = {} => parsed.v.lastPosition = Some(title)
            /\ companies # {} =>
                 \E company \in companies :
                   parsed.v.lastPosition = Some(title \o " at " \o company)

\* C22 witness: the section holds "Data Engineer" with a company first and
\* "Software Engineer" with another company after it; the title earlier in
\* the list wins, with its own company.
C22_LaterInTextWins ==
  /\ Returned
  /\ \E section \in ExperienceSections : NoLineToMatch(section)
  /\ input = "Experience:\n- Data Engineer | Acme, then Software Engineer at Initech\n\n"
  /\ parsed.v.lastPosition = Some("Software Engineer at Initech")

-----------------------------------------------------------------------------
(* The ResumeUpload component of the page *)

\* the largest number of uploads the component starts
MaxUploads == 2

\* the content types and the size handleFileUpload lets through
BrowserTypes == { Pdf, Docx, Txt }
BrowserSizeLimit == 10 * 1024 * 1024

\* a File of the browser
FileOf(name, type, head, size) == [name |-> name, type |-> type, head |-> head, size |-> size]

\* the files the user has at hand
ChosenFiles ==
  { FileOf("cv.txt", Txt, Utf8Encode(CodesOf("Skills: Python, Excel, SQL\n")), 27),
    FileOf("old.txt", Txt, Utf8Encode(CodesOf("a..b@x.co ")), 10),
    FileOf("scan.pdf", Pdf, << 37, 80, 68, 70 >>, 4),
    FileOf("photo.png", "image/png", << 80, 75 >>, 2),
    FileOf("huge.txt", Txt, Utf8Encode(CodesOf("Jane Doe\n")), BrowserSizeLimit + 1) }

\* event.target.files
FileLists == { <<>> } \cup { << f >> : f \in ChosenFiles }

\* formData.append('resume', uploadedFile): the request the server receives
FormRequest(uploadedFile) ==
  [hasFile |-> TRUE, mimetype |-> uploadedFile.type, originalname |-> uploadedFile.name,
   size |-> uploadedFile.size, head |-> uploadedFile.head]

\* what the server's decoder of the type can make of the bytes
ServerDecoders(mimetype) ==
  IF mimetype \in {Pdf, Docx} THEN DecoderOutcomes ELSE {DecoderThrows}

\* the responses POST /api/resume/upload can give to a request
RouteAnswers(req) ==
  UNION { IF m.err # None
          THEN { Response(400, [message |-> IF m.err[1] = "" THEN "File upload failed"
                                            ELSE m.err[1]]) }
          ELSE IF ~m.file.present THEN { Response(400, [message |-> "No file uploaded"]) }
          ELSE { ResponseFor(processResume(m.file,
                                           extractTextFromFile(m.file.buffer, m.file.mimetype,
                                                               decoder), id)) :
                 decoder \in ServerDecoders(m.file.mimetype), id \in {"uuid-1"} } :
          m \in { uploadSingle(req) } }

\* what `await fetch('/api/resume/upload', ...)` can come to
FetchOutcomes(uploadedFile) ==
  { ResponseOf(r.status, r.body) : r \in RouteAnswers(FormRequest(uploadedFile)) }
    \cup { NetworkError }

Upload(uploadedFile) == [file |-> uploadedFile, settled |-> FALSE, ok |-> FALSE]

InFlight == { i \in 1..Len(uploads) : ~uploads[i].settled }

InitUpload ==
  /\ PageIdle
  /\ ClientIdle
  /\ ParserIdle
  /\ ExtractIdle
  /\ UploadIdle
  /\ SearchIdle

\* handleFileUpload up to `await fetch`: the checks of the file, setFile,
\* setIsProcessing(true), and the request leaves
handleFileUpload ==
  /\ \E fileList \in FileLists :
       /\ fileList # <<>>
       /\ \E uploadedFile \in { fileList[1] } :
            IF uploadedFile.type \notin BrowserTypes
            THEN /\ toast' = "Invalid file type"
                 /\ UNCHANGED << fileShown, isProcessing, uploads >>
            ELSE IF uploadedFile.size > BrowserSizeLimit
            THEN /\ toast' = "File too large"
                 /\ UNCHANGED << fileShown, isProcessing, uploads >>
            ELSE /\ Len(uploads) < MaxUploads
                 /\ fileShown' = Some(uploadedFile)
                 /\ isProcessing' = TRUE
                 /\ uploads' = Append(uploads, Upload(uploadedFile))
                 /\ UNCHANGED toast
  /\ UNCHANGED << isSubmitted, currentPage, totalResults, jobsShown, queries >>
  /\ UNCHANGED << parserVars, extractVars, uploadVars, clientVars, searchVars >>

\* handleFileUpload from the answer on: setResume(data) and a toast, or the
\* catch with its toast and setFile(null); finally setIsProcessing(false)
UploadSettles ==
  /\ \E i \in InFlight :
       \E outcome \in FetchOutcomes(uploads[i].file) :
         /\ IF outcome.kind = "response" /\ outcome.ok
            THEN /\ resume' = Some(outcome.data)
                 /\ created' = Some(outcome.data)
                 /\ toast' = "Resume uploaded"
                 /\ UNCHANGED fileShown
            ELSE /\ toast' = "Upload failed"
                 /\ fileShown' = None
                 /\ UNCHANGED << resume, created >>
         /\ uploads' = [uploads EXCEPT ![i] = [@ EXCEPT !.settled = TRUE,
                                                         !.ok = outcome.kind = "response"
                                                                  /\ outcome.ok]]
  /\ isProcessing' = FALSE
  /\ UNCHANGED << shown, isSubmitted, currentPage, totalResults, jobsShown, queries >>
  /\ UNCHANGED << parserVars, extractVars, uploadVars, searchVars >>

\* handleRemoveFile, from the button shown while `file && !isProcessing`
handleRemoveFile ==
  /\ fileShown # None
  /\ ~isProcessing
  /\ fileShown' = None
  /\ resume' = None
  /\ created' = None
  /\ UNCHANGED << isProcessing, uploads, toast, shown >>
  /\ UNCHANGED << isSubmitted, currentPage, totalResults, jobsShown, queries >>
  /\ UNCHANGED << parserVars, extractVars, uploadVars, searchVars >>

NextUpload == handleFileUpload \/ UploadSettles \/ handleRemoveFile

SpecUpload == InitUpload /\ [][NextUpload]_vars

\* C23: when uploads overlap, then once all of them have settled the resume
\* of the page is the one made from the file chosen last, the file shown.
C23_LatestFileWins ==
  (InFlight = {} /\ fileShown # None /\ resume # None)
    => resume[1].filename = fileShown[1].name

\* C24: isProcessing is true exactly while an upload request is in flight.
C24_ProcessingWhileInFlight == isProcessing <=> InFlight # {}

\* C25: with no upload in flight, a resume is held only while a file is
\* shown.
C25_NoResumeWithoutFile == (InFlight = {} /\ fileShown = None) => resume = None

-----------------------------------------------------------------------------
\* the one response of a finished request, by the path taken
AnsweredByPath ==
  IF multerErr # None \/ ~reqFile.present THEN response.status = 400
  ELSE \A validated \in { IF resumeData.threw THEN resumeData
                          ELSE resumeSchemaParse(resumeData.v) } :
         IF validated.threw THEN response.status = 500
         ELSE response = Response(200, validated.v)

\* the guards of RespondMulterError, RespondNoFile and ProcessUpload: one of
\* the three can run in the callback
SomePathResponds ==
  \/ multerErr # None
  \/ multerErr = None /\ ~reqFile.present
  \/ multerErr = None /\ reqFile.present /\ DecodersOf(reqFile.mimetype) # {}

\* C26: every request to the upload endpoint gets exactly one response: 400
\* when multer rejects the upload or no file is present, 500 when processing
\* or validation throws, the record otherwise; never two, never none.
C26_ExactlyOneResponse ==
  /\ pc # "done" => answers = <<>>
  /\ pc = "callback" => SomePathResponds
  /\ pc = "done" => answers = << response >> /\ AnsweredByPath

\* a request whose record fails validation was answered 500 by the catch,
\* and by nothing else
C26_CatchAnswered ==
  /\ pc = "done"
  /\ ~resumeData.threw
  /\ resumeData # NotProcessed
  /\ response.status = 500
  /\ Len(answers) = 1

-----------------------------------------------------------------------------
(* Paging of the search results *)

\* the largest limit and the largest page of the paged requests
MaxLimit == 3
MaxPage == 5

\* requests with a page and a limit, for locations that 0, 2 and 4 of the
\* provider's listings pass
PagedRequests ==
  { SearchRequestOf(None, Some("engineer"), Some(bl), Some(pg), Some(lm)) :
      bl \in { "t", "austin", "Remote", "Paris" }, pg \in 1..MaxPage, lm \in 1..MaxLimit }

PagedRequest == RouteOn(PagedRequests)

InitPaging ==
  /\ ParserIdle
  /\ ExtractIdle
  /\ UploadIdle
  /\ ClientIdle
  /\ PageIdle
  /\ SERPAPI_KEY = Some("key")
  /\ caller = "none"
  /\ sPc = "idle"
  /\ search = NoSearch
  /\ attempt = 0
  /\ sent = <<>>
  /\ waits = <<>>
  /\ lastError = None
  /\ fetched = NotFetched
  /\ searchResponse = NoResponse

NextPaging == PagedRequest \/ ServerAttempt

SpecPaging == InitPaging /\ [][NextPaging]_vars

\* the listings of the provider that pass for the requested location, in
\* the provider's order
PassingJobs ==
  SelectSeq(ProvidedJobs, LAMBDA job : PassesFor(job, Trim(RequestedLocation)))

\* Math.ceil(total / limit)
PagesOf(total, limit) == (total + limit - 1) \div limit

\* the jobs searchJobs returns for a page of the provider's response
PageOfJobs(pageNum) ==
  searchJobsResult(fetched.response.data, RequestedLocation, pageNum,
                   RouteParams(search).limit).v.jobs

RECURSIVE PagesUpTo(_)
\* pages 1..n of the response, one after the other
PagesUpTo(n) == IF n = 0 THEN <<>> ELSE PagesUpTo(n - 1) \o PageOfJobs(n)

\* C27: for a fixed provider response and a limit >= 1, totalResults is the
\* number of jobs that pass the location filter whatever the page, a page
\* holds at most limit jobs, and pages 1..ceil(totalResults/limit) one after
\* the other are the filtered list in its order, nothing twice, nothing left
\* out.
C27_PagesPartitionFiltered ==
  SearchAnswered =>
    \A filtered \in { PassingJobs }, limit \in { RouteParams(search).limit },
       page \in { RouteParams(search).page } :
      /\ limit >= 1
      /\ searchResponse.body.totalResults = Len(filtered)
      /\ Len(searchResponse.body.jobs) <= limit
      /\ searchResponse.body.jobs = PageOfJobs(page)
      /\ \A k \in 1..Len(searchResponse.body.jobs) :
           /\ (page - 1) * limit + k <= Len(filtered)
           /\ searchResponse.body.jobs[k] = filtered[(page - 1) * limit + k]
      /\ PagesUpTo(PagesOf(Len(filtered), limit)) = filtered

\* page 2 of 2 with limit 3: the one job left of the four that pass
C27_LastPartialPage ==
  /\ SearchAnswered
  /\ RouteParams(search).limit = 3
  /\ RouteParams(search).page = 2
  /\ searchResponse.body.totalResults = 4
  /\ Len(searchResponse.body.jobs) = 1
  /\ searchResponse.body.jobs[1].title = "Engineer II"

-----------------------------------------------------------------------------
(* The JobSearch component of the page: paging *)

\* const resultsPerPage = 10
resultsPerPage == 10

\* the largest number of runs of queryFn that wait for their answer, and the
\* largest total the server reports
MaxQueries == 2
MaxTotal == 60

\* the totals the answers of the server can report
Totals == { 0, 5, 25, MaxTotal }

\* const totalPages = Math.ceil(totalResults / resultsPerPage)
totalPages == (totalResults + resultsPerPage - 1) \div resultsPerPage

\* the body of the route's answer to page `pageNum` of `total` jobs
SearchData(total, pageNum) ==
  [ jobs |-> Len(Slice([ k \in 1..total |-> k ], (pageNum - 1) * resultsPerPage,
                       (pageNum - 1) * resultsPerPage + resultsPerPage)),
    totalResults |-> total ]

\* data.totalResults || (data?.length || 0): the body is an object, so the
\* length is undefined
TotalOf(data) == IF data.totalResults # 0 THEN data.totalResults ELSE 0

\* what queryFn comes to: the body of an answer, or the catch after the
\* retries of fetchWithRetry
QueryOutcomes(pageNum) ==
  { [failed |-> FALSE, data |-> SearchData(total, pageNum)] : total \in Totals }
    \cup { [failed |-> TRUE, data |-> <<>>] }

\* invalidateQueries: the runs under way are cancelled, but go on to their
\* end, and queryFn runs again with the page of the moment
Refetch(pageNum) ==
  [ i \in 1..Len(queries) |-> [queries[i] EXCEPT !.stale = TRUE] ]
    \o << [page |-> pageNum, stale |-> FALSE] >>

\* the pagination block is rendered
PaginationShown == jobsShown # None /\ jobsShown[1] > 0 /\ totalPages > 1

\* pageNum of the i-th page button
PageNum(i) ==
  IF totalPages <= 5 THEN i + 1
  ELSE IF currentPage <= 3 THEN i + 1
  ELSE IF currentPage >= totalPages - 2 THEN totalPages - 4 + i
  ELSE currentPage - 2 + i

InitJobSearch ==
  /\ PageIdle
  /\ ClientIdle
  /\ ParserIdle
  /\ ExtractIdle
  /\ UploadIdle
  /\ SearchIdle

\* onSubmit of a valid form: setCurrentPage(1), the toast, the data of the
\* query set to null, and the query runs
onSubmit ==
  /\ Len(queries) < MaxQueries
  /\ currentPage' = 1
  /\ toast' = "Searching jobs"
  /\ jobsShown' = None
  /\ isSubmitted' = TRUE
  /\ queries' = Refetch(1)
  /\ UNCHANGED << totalResults, fileShown, isProcessing, uploads >>
  /\ UNCHANGED << parserVars, extractVars, uploadVars, clientVars, searchVars >>

\* setCurrentPage(pageNum) with another page, and the effect that
\* invalidates the query
GoToPage(pageNum) ==
  /\ Len(queries) < MaxQueries
  /\ currentPage' = pageNum
  /\ queries' = Refetch(pageNum)
  /\ UNCHANGED << totalResults, jobsShown, isSubmitted, toast, fileShown, isProcessing,
                  uploads >>
  /\ UNCHANGED << parserVars, extractVars, uploadVars, clientVars, searchVars >>

\* the Previous button, disabled on page 1
handlePreviousPage ==
  /\ PaginationShown
  /\ currentPage # 1
  /\ currentPage > 1
  /\ GoToPage(currentPage - 1)

\* the Next button, disabled on the last page
handleNextPage ==
  /\ PaginationShown
  /\ currentPage # totalPages
  /\ currentPage < totalPages
  /\ GoToPage(currentPage + 1)

\* one of the page-number buttons, for a page other than the current one
PageNumberClick ==
  /\ PaginationShown
  /\ \E i \in 0..(Min(5, totalPages) - 1) :
       /\ PageNum(i) # currentPage
       /\ GoToPage(PageNum(i))

\* a run of queryFn gets its answer: setTotalResults, and the data of the
\* query unless the run was cancelled; or the toast of the catch
QueryAnswered ==
  /\ \E i \in 1..Len(queries) :
       /\ \E outcome \in QueryOutcomes(queries[i].page) :
            /\ IF outcome.failed
               THEN /\ toast' = "Search error"
                    /\ UNCHANGED totalResults
               ELSE /\ totalResults' = TotalOf(outcome.data)
                    /\ UNCHANGED toast
            /\ jobsShown' = IF queries[i].stale THEN jobsShown
                            ELSE IF outcome.failed THEN Some(0)
                            ELSE Some(outcome.data.jobs)
       /\ queries' = [ k \in 1..(Len(queries) - 1) |->
                         IF k < i THEN queries[k] ELSE queries[k + 1] ]
  /\ UNCHANGED << currentPage, isSubmitted, fileShown, isProcessing, uploads >>
  /\ UNCHANGED << parserVars, extractVars, uploadVars, clientVars, searchVars >>

NextJobSearch ==
  onSubmit \/ handlePreviousPage \/ handleNextPage \/ PageNumberClick \/ QueryAnswered

SpecJobSearch == InitJobSearch /\ [][NextJobSearch]_vars

\* C28: in every reachable state of the JobSearch component currentPage >= 1
\* and, whenever totalPages >= 1, currentPage <= totalPages.
C28_PageWithinRange ==
  /\ currentPage >= 1
  /\ totalPages >= 1 => currentPage <= totalPages

-----------------------------------------------------------------------------
\* C29: after its third failed attempt the server's fetchWithRetry throws at
\* once: no time is waited after the last attempt, whatever the failure, a
\* 429 included.
C29_NoWaitAfterLastAttempt ==
  (caller = "server" /\ fetched.kind = "threw")
    => /\ Len(sent) = maxRetries
       /\ Len(waits) = maxRetries
       /\ waits[maxRetries] = 0

-----------------------------------------------------------------------------
\* C30: extractKeySkills returns for every resume text, without throwing, and
\* so formatResumeForDisplay returns a resume for every record, with the
\* skills of a record that has some left as they are.
C30_KeySkillsNeverThrow ==
  /\ resume # None => ~extractKeySkills(resume[1].rawText).threw
  /\ shown.op = "format" =>
       /\ ~shown.threw
       /\ created[1].skills # <<>> => resume[1].skills = created[1].skills

=============================================================================
